---- MODULE Spec2Model ----
(***************************************************************************)
(* Test-Royale backend: the Game Session Orchestrator (GameService), the   *)
(* room state it drives (RoomService) and the C# build/test/coverage/      *)
(* mutation pipeline (CodeService), as a state machine.                    *)
(*                                                                         *)
(* Every service method is an async function; one action is one stretch of *)
(* a method that runs without yielding to the event loop (from one awaited *)
(* I/O to the next).  Game documents are Mongoose documents: findById      *)
(* returns a private copy, save() writes the modified paths and, because   *)
(* the whole players array is marked modified, is guarded by the version   *)
(* key (a stale copy is refused with a VersionError).                      *)
(*                                                                         *)
(* Units: percentages are carried in tenths of a percent (1000 = 100%),    *)
(* the composite score in hundredths, execution time in whole seconds.     *)
(***************************************************************************)
EXTENDS Integers, Sequences, FiniteSets, TLC

----------------------------------------------------------------------------
(* Bounds *)

MaxCalls == 2
MaxOps == 3
MaxGameOps == 2
MaxGames == 2
MaxFaults == 1

----------------------------------------------------------------------------
(* Identifiers.  Room codes and game ids are both strings in the program   *)
(* (a short room code, a 24-hex ObjectId); they never coincide, so they    *)
(* are drawn from disjoint ranges of numbers here.                         *)

Players == <<"p1", "p2">>
PlayerIds == {Players[i] : i \in 1..Len(Players)}
\* a registered player who joined no room and is an entry of no game
Outsider == "p3"
RoomCode == 101
GameIds == 1..MaxGames

NoDoc == [none |-> TRUE]
NoRes == [pending |-> TRUE]

----------------------------------------------------------------------------
(* Source texts.  A text is a sequence of lines; a line is one of a small  *)
(* alphabet of shapes: "stmt" (a statement), "stmt//" (a statement with a  *)
(* trailing line comment), "//" (a comment-only line), "" (blank), "{" and *)
(* "}" (brace-only), "/*" (opens a block comment), "cmt" (inside one),     *)
(* "*/" (closes one).                                                      *)

BaseCode == <<"stmt", "{", "stmt", "//", "stmt", "}">>

TestCodes == {"tA", "tB", "tC"}

Text(code) ==
  CASE code = "tA" -> <<"stmt", "{", "stmt//", "stmt", "}", "stmt">>
    [] code = "tB" -> <<"/*", "cmt", "*/", "stmt", "", "stmt">>
    [] code = "tC" -> <<"stmt">>
    [] code = "tH" -> <<"stmt", "stmt">>
    [] OTHER -> << >>

(* What the external toolchain answers for a test code (a deterministic    *)
(* toolchain: the answers are a function of the submitted text).           *)
(*   builds      the test project compiles                                 *)
(*   passed/failed  counts printed by `dotnet test`                        *)
(*   hangs       the test run exceeds exec's 20 s limit and is killed      *)
(*               before it prints its summary                              *)
(*   secs        wall-clock seconds of the test run                        *)
(*   lineRate/branchRate  document-level attributes of the coverage xml,   *)
(*               in tenths of a percent                                    *)
(*   hits        <line number, hit count> pairs of the BaseCode.cs block   *)
(*   mutants     statuses in the mutation report                           *)
Profile(code) ==
  CASE code = "tA" ->
         [builds |-> TRUE, hangs |-> FALSE, passed |-> 3, failed |-> 0, secs |-> 2,
          lineRate |-> 1000, branchRate |-> 900,
          hits |-> << <<1, 2>>, <<3, 1>>, <<5, 1>> >>,
          mutants |-> <<"Killed", "Killed", "Killed", "Killed", "Survived">>]
    [] code = "tB" ->
         [builds |-> TRUE, hangs |-> FALSE, passed |-> 1, failed |-> 1, secs |-> 6,
          lineRate |-> 750, branchRate |-> 500,
          hits |-> << <<1, 1>>, <<3, 0>>, <<5, 1>>, <<9, 4>> >>,
          mutants |-> <<"Killed", "Survived", "NoCoverage", "Timeout">>]
    [] code = "tH" ->
         [builds |-> TRUE, hangs |-> TRUE, passed |-> 0, failed |-> 0, secs |-> 20,
          lineRate |-> 0, branchRate |-> 0,
          hits |-> << >>, mutants |-> << >>]
    [] code = "" ->
         [builds |-> TRUE, hangs |-> FALSE, passed |-> 0, failed |-> 0, secs |-> 6,
          lineRate |-> 0, branchRate |-> 0,
          hits |-> << <<1, 0>>, <<3, 0>>, <<5, 0>> >>,
          mutants |-> <<"NoCoverage", "NoCoverage">>]
    [] OTHER ->
         [builds |-> FALSE, hangs |-> FALSE, passed |-> 0, failed |-> 0, secs |-> 0,
          lineRate |-> 0, branchRate |-> 0,
          hits |-> << >>, mutants |-> << >>]

----------------------------------------------------------------------------
(* CodeService: the pure parts *)

RECURSIVE StripComments(_, _)
(* The two comment-removing replaces of calculateTestLines: a block        *)
(* comment is replaced by nothing (its lines collapse into one empty       *)
(* line), a line comment is cut off its line.                              *)
StripComments(text, inBlock) ==
  IF text = << >> THEN << >>
  ELSE LET l == Head(text)
           rest == Tail(text)
       IN IF inBlock
          THEN IF l = "*/" THEN <<"">> \o StripComments(rest, FALSE)
               ELSE StripComments(rest, TRUE)
          ELSE IF l = "/*" THEN StripComments(rest, TRUE)
               ELSE IF l = "//" THEN <<"">> \o StripComments(rest, FALSE)
               ELSE IF l = "stmt//" THEN <<"stmt">> \o StripComments(rest, FALSE)
               ELSE <<l>> \o StripComments(rest, FALSE)

calculateTestLines(code) ==
  LET cleaned == StripComments(code, FALSE)
      lines == SelectSeq(cleaned, LAMBDA l : l # "" /\ l # "{" /\ l # "}")
  IN [success |-> TRUE, totalTestLines |-> Len(lines)]

(* num/den*100 cut after its first decimal instead of rounded.             *)
ToFixed1_truncated(num, den) == (1000 * num) \div den

(* Number.prototype.toFixed(1) of num/den*100, in tenths of a percent.     *)
ToFixed1(num, den) == (2000 * num + den) \div (2 * den)

CountStatus(mutants, st) == Len(SelectSeq(mutants, LAMBDA m : m = st))

(* The report-parsing tail of generateMutationReport.                      *)
MutationSummary(mutants) ==
  LET killed == CountStatus(mutants, "Killed")
      totalMutants == Len(mutants)
  IN [totalMutants |-> totalMutants,
      killed |-> killed,
      survived |-> CountStatus(mutants, "Survived"),
      timeout |-> CountStatus(mutants, "Timeout"),
      noCoverage |-> CountStatus(mutants, "NoCoverage"),
      mutationScore |-> IF totalMutants > 0 THEN ToFixed1(killed, totalMutants) ELSE 0]

ZeroSummary ==
  [totalMutants |-> 0, killed |-> 0, survived |-> 0, timeout |-> 0,
   noCoverage |-> 0, mutationScore |-> 0]

(* generateMutationReport: tool is what the mutation tool did              *)
(* ("ok", "unavailable", "sln", "timeout", "noreport", "badjson").         *)
(* The try block: the first statement that throws ends it with the        *)
(* message of its Error; otherwise it returns the parsed report.           *)
MutationTry(tool, mutants) ==
  CASE tool = "unavailable" ->
         [thrown |-> TRUE, message |-> "Command failed: dotnet tool install -g dotnet-stryker"]
    [] tool = "sln" ->
         [thrown |-> TRUE, message |-> "Command failed: dotnet new sln -n TempSolution"]
    [] tool = "timeout" ->
         [thrown |-> TRUE, message |-> "spawnSync /bin/sh ETIMEDOUT"]
    [] tool = "noreport" ->
         [thrown |-> TRUE, message |-> "Report file not found"]
    [] tool = "badjson" ->
         [thrown |-> TRUE, message |-> "Unexpected end of JSON input"]
    [] OTHER ->
         [thrown |-> FALSE,
          value |-> [success |-> TRUE, error |-> "", mutants |-> mutants,
                     summary |-> MutationSummary(mutants)]]

(* A catch that reports the failure but keeps what the report held.        *)
generateMutationReport_partial(tool, mutants) ==
  [success |-> tool = "ok",
   error |-> IF tool = "ok" THEN "" ELSE MutationTry(tool, mutants).message,
   mutants |-> mutants, summary |-> MutationSummary(mutants)]

generateMutationReport(tool, mutants) ==
  LET try == MutationTry(tool, mutants)
  IN IF try.thrown
     THEN [success |-> FALSE, error |-> try.message, mutants |-> << >>,
           summary |-> ZeroSummary]
     ELSE try.value

(* What generateCoverageReport finds on disk after its instrumented run:   *)
(* art is "none" (no TestResults directory), "nofile" (no coverage file in *)
(* it), "unreadable" (the file cannot be read), "noclass" (no BaseCode.cs  *)
(* block in the xml) or "xml".                                             *)
RECURSIVE ParseLines(_, _)
(* The while loop over <line number= hits=>: <<validLines, coveredLines,   *)
(* the lines marked covered>>.                                             *)
ParseLines(hits, totalBaseCodeLines) ==
  IF hits = << >> THEN <<0, 0, {}>>
  ELSE LET r == ParseLines(Tail(hits), totalBaseCodeLines)
           line == Head(hits)[1]
           h == Head(hits)[2]
       IN IF line >= 1 /\ line <= totalBaseCodeLines
          THEN IF h > 0 THEN <<r[1] + 1, r[2] + 1, r[3] \cup {line}>>
               ELSE <<r[1] + 1, r[2], r[3]>>
          ELSE r

Rejected == [rejected |-> TRUE]

(* A coverage analyzer that answers every case but a parsed BaseCode.cs    *)
(* block with an empty per-line list.                                      *)
generateCoverageReport_empty(dirExists, art, prof) ==
  IF ~dirExists \/ art = "unreadable" THEN Rejected
  ELSE IF art \in {"none", "nofile"}
  THEN [success |-> TRUE, lineCoverage |-> << >>,
        coverageSummary |-> 0, lineRate |-> 0, branchRate |-> 0]
  ELSE [success |-> TRUE, lineCoverage |-> << >>,
        coverageSummary |-> prof.lineRate,
        lineRate |-> prof.lineRate, branchRate |-> prof.branchRate]

generateCoverageReport(dirExists, art, prof) ==
  LET totalBaseCodeLines == Len(BaseCode)
      lineCoverage == [i \in 1..totalBaseCodeLines |-> FALSE]
      parsed == ParseLines(prof.hits, totalBaseCodeLines)
  IN IF ~dirExists THEN Rejected
     ELSE IF art \in {"none", "nofile"}
     THEN [success |-> TRUE, lineCoverage |-> lineCoverage,
           coverageSummary |-> 0, lineRate |-> 0, branchRate |-> 0]
     ELSE IF art = "unreadable" THEN Rejected
     ELSE IF art = "noclass"
     THEN [success |-> TRUE, lineCoverage |-> lineCoverage,
           coverageSummary |-> prof.lineRate,
           lineRate |-> prof.lineRate, branchRate |-> prof.branchRate]
     ELSE [success |-> TRUE,
           lineCoverage |-> [i \in 1..totalBaseCodeLines |-> i \in parsed[3]],
           coverageSummary |-> IF parsed[1] > 0
                               THEN ToFixed1(parsed[2], parsed[1])
                               ELSE 0,
           lineRate |-> prof.lineRate, branchRate |-> prof.branchRate]

----------------------------------------------------------------------------
(* State *)

VARIABLES
  rooms,        \* Room collection: room code -> document
  games,        \* Game collection: game id -> document, or NoDoc
  badges,       \* Badge collection: the conditions that have a badge
  playerStats,  \* Player collection: player id -> long-term statistics
  activeGames,  \* GameService.activeGames: the keys of the in-memory Map
  calls,        \* the service calls in progress: call id -> frame
  runs,         \* the pipeline runs started so far, with their workspaces
  fs,           \* the workspace directories that exist under temp/
  now,          \* the value Date.now() returned last
  opsLeft,      \* service calls the clients may still make
  faultsLeft    \* I/O faults the environment may still inject

vars == <<rooms, games, badges, playerStats, activeGames, calls, runs, fs, now, opsLeft, faultsLeft>>

AllBadges ==
  {"mutation_slayer", "coverage_platinum", "coverage_gold", "coverage_silver",
   "coverage_bronze", "lightning_tester", "first_place", "second_place"}

(* The statistics fields of playerSchema with their defaults.              *)
NewPlayer == [totalScore |-> 0, totalGamesPlayed |-> 0, totalGamesWon |-> 0]

NoStats == [passed |-> 0, failed |-> 0, total |-> 0, executionTime |-> -1]

(* One element of gameSchema.players with the schema defaults.             *)
(* submittedAt holds a Date; the model keeps the statement that wrote it:  *)
(* "default" (Date.now when the entry is created) or the name of the       *)
(* operation that assigned submission.submittedAt later.                   *)
NewEntry(pid) ==
  [playerId |-> pid, testCode |-> "", submittedAt |-> "default", stats |-> NoStats,
   totalScore |-> 0, branchCoverage |-> 0, lineCoverage |-> << >>,
   lineRate |-> 0, coverageSummary |-> 0,
   mutation |-> [score |-> 0, total |-> 0, killed |-> 0, survived |-> 0,
                 timeout |-> 0, noCoverage |-> 0],
   badgesEarned |-> << >>, testLines |-> 0, executionTime |-> 0]

(* The element startGame builds for a room player: the values it passes   *)
(* are the schema defaults, except lineCoverage: 0, which the Array path   *)
(* casts to the one-element array [0] (playerCode and feedback: 'init' is  *)
(* no schema path and is dropped).                                         *)
GamePlayer(pid) == [NewEntry(pid) EXCEPT !.lineCoverage = <<0>>]

(* gameSchema.finishedAt and gameSchema.winner have no default: a path     *)
(* that was never assigned is undefined.                                   *)
NoDate == -1
NoWinner == ""

IdleCall ==
  [op |-> "idle", pc |-> "idle", pid |-> "", gid |-> 0, code |-> "",
   doc |-> NoDoc, snap |-> NoDoc, res |-> NoRes, run |-> 0, i |-> 0,
   caller |-> "client", auto |-> {}]

Ok == [success |-> TRUE, error |-> ""]
Err(e) == [success |-> FALSE, error |-> e]

(* A frame that has returned res to its caller.                            *)
Return(frame, res) ==
  [IdleCall EXCEPT !.op = frame.op, !.pc = "done", !.res = res,
                   !.gid = frame.gid, !.pid = frame.pid]

Faults == IF faultsLeft > 0 THEN {FALSE, TRUE} ELSE {FALSE}
Charge(fault) == faultsLeft' = IF fault THEN faultsLeft - 1 ELSE faultsLeft

InitRoom ==
  [code |-> RoomCode, hostId |-> Players[1], players |-> Players,
   ready |-> PlayerIds, gameState |-> "waiting"]

(* The state after construction of the services, for a room whose players  *)
(* have joined and are ready; ncalls calls can be in progress at a time.   *)
FreshWith(room, ncalls, ops, faults) ==
  /\ rooms = [r \in {RoomCode} |-> room]
  /\ games = [g \in GameIds |-> NoDoc]
  /\ playerStats = [p \in PlayerIds |-> NewPlayer]
  /\ activeGames = {}
  /\ calls = [c \in 1..ncalls |-> IdleCall]
  /\ runs = << >>
  /\ fs = {}
  /\ now = 0
  /\ opsLeft = ops
  /\ faultsLeft = faults

Fresh(ncalls, ops, faults) == FreshWith(InitRoom, ncalls, ops, faults)

Init == Fresh(MaxCalls, MaxOps, 0) /\ badges = AllBadges

----------------------------------------------------------------------------
(* RoomService *)

(* Room.findOne({'players.playerId': playerId, gameState: {$in: [waiting,  *)
(* playing]}}) and the result object built from it.                        *)
getPlayerRoom(playerId) ==
  LET found == {r \in DOMAIN rooms :
                  /\ \E k \in 1..Len(rooms[r].players) : rooms[r].players[k] = playerId
                  /\ rooms[r].gameState \in {"waiting", "playing"}}
  IN IF found = {} THEN [success |-> FALSE, error |-> "Player is not in any room"]
     ELSE [success |-> TRUE, room |-> rooms[CHOOSE r \in found : TRUE]]

(* The room collection after updateRoomGameState(roomCode, gameState).     *)
updateRoomGameState(roomCode, gameState) ==
  [rooms EXCEPT ![roomCode].gameState = gameState]

----------------------------------------------------------------------------
(* GameService.startGame *)

Free(c) == calls[c].pc \in {"idle", "done"}

(* The ids a client can name: those of the games created so far.           *)
KnownGames == {g \in GameIds : games[g] # NoDoc}

GamesInUse ==
  Cardinality({g \in GameIds : games[g] # NoDoc})
  + Cardinality({c \in DOMAIN calls : calls[c].pc \in {"sg_room", "sg_save"} /\ calls[c].gid = 0})

CallStartGame(c, PlayerId) ==
  /\ Free(c) /\ opsLeft > 0
  /\ GamesInUse < MaxGames
  /\ calls' = [calls EXCEPT ![c] =
        [IdleCall EXCEPT !.op = "startGame", !.pc = "sg_room", !.pid = PlayerId]]
  /\ opsLeft' = opsLeft - 1
  /\ UNCHANGED <<rooms, games, badges, playerStats, activeGames, runs, fs, now, faultsLeft>>

(* getPlayerRoom and the precondition checks made on its snapshot, up to   *)
(* the construction of the Game document.                                  *)
startGame_room(c) ==
  LET f == calls[c]
      playerRoomResult == getPlayerRoom(f.pid)
      room == playerRoomResult.room
      game == [roomCode |-> room.code,
               players |-> [k \in 1..Len(room.players) |-> GamePlayer(room.players[k])],
               gameState |-> "playing", startedAt |-> now, finishedAt |-> NoDate,
               winner |-> NoWinner, totalDuration |-> 0, v |-> 0]
  IN /\ f.pc = "sg_room"
     /\ calls' = [calls EXCEPT ![c] =
          IF ~playerRoomResult.success THEN Return(f, Err("Room not found"))
          ELSE IF room.gameState # "waiting"
            THEN Return(f, Err("Game already started or finished"))
          ELSE IF Len(room.players) < 2
            THEN Return(f, Err("Need at least 2 players to start game"))
          ELSE IF room.code \in activeGames
            THEN Return(f, Err("Game already started in this room"))
          ELSE IF ~(\A k \in 1..Len(room.players) : room.players[k] \in room.ready)
            THEN Return(f, Err("Not all players are ready"))
          ELSE [f EXCEPT !.pc = "sg_save", !.doc = game]]
     /\ UNCHANGED <<rooms, games, badges, playerStats, activeGames, runs, fs, now, opsLeft, faultsLeft>>

(* await game.save(): the document is inserted under a fresh id.           *)
startGame_save(c) ==
  LET f == calls[c]
      id == CHOOSE g \in GameIds : games[g] = NoDoc /\ \A h \in GameIds : h < g => games[h] # NoDoc
  IN /\ f.pc = "sg_save"
     /\ \E fault \in Faults :
          /\ Charge(fault)
          /\ IF fault
             THEN /\ calls' = [calls EXCEPT ![c] = Return(f, Err("save failed"))]
                  /\ UNCHANGED games
             ELSE /\ games' = [games EXCEPT ![id] = f.doc]
                  /\ calls' = [calls EXCEPT ![c] = [f EXCEPT !.pc = "sg_update", !.gid = id]]
     /\ UNCHANGED <<rooms, badges, playerStats, activeGames, runs, fs, now, opsLeft>>

(* await roomService.updateRoomGameState(room.code, 'playing', ...), then  *)
(* activeGames.set(game._id.toString(), ...) and the success result.       *)
startGame_update(c) ==
  LET f == calls[c]
      code == f.doc.roomCode
  IN /\ f.pc = "sg_update"
     /\ \E fault \in Faults :
          /\ Charge(fault)
          /\ IF fault \/ code \notin DOMAIN rooms
             THEN /\ calls' = [calls EXCEPT ![c] = Return(f, Err("room update failed"))]
                  /\ UNCHANGED <<rooms, activeGames>>
             ELSE /\ rooms' = updateRoomGameState(code, "playing")
                  /\ activeGames' = activeGames \cup {f.gid}
                  /\ calls' = [calls EXCEPT ![c] = Return(f, Ok)]
     /\ UNCHANGED <<games, badges, playerStats, runs, fs, now, opsLeft>>

----------------------------------------------------------------------------
(* Mongoose save() of a loaded Game document.  Every save in GameService   *)
(* follows markModified("players"), so the update $sets the whole players  *)
(* array: it carries the version key in its filter and increments it, and  *)
(* a copy loaded before another such save is refused (VersionError).       *)

VersionError == [versionError |-> TRUE]

(* A save that replaces the stored document by the caller's copy without   *)
(* the version filter.                                                     *)
save_overwrite(stored, doc, paths) == [doc EXCEPT !.v = stored.v + 1]

(* A save that writes its paths whatever the stored version is.            *)
save_lastWriteWins(stored, doc, paths) ==
  [k \in DOMAIN stored |->
     IF k = "v" THEN stored.v + 1
     ELSE IF k \in paths THEN doc[k] ELSE stored[k]]

save(stored, doc, paths) ==
  IF stored.v # doc.v THEN VersionError
  ELSE [k \in DOMAIN stored |->
          IF k = "v" THEN stored.v + 1
          ELSE IF k \in paths THEN doc[k] ELSE stored[k]]

PlayerIndex(game, playerId) ==
  IF \E k \in 1..Len(game.players) : game.players[k].playerId = playerId
  THEN CHOOSE k \in 1..Len(game.players) : game.players[k].playerId = playerId
  ELSE 0

----------------------------------------------------------------------------
(* GameService.submitTestCode *)

CallSubmitTestCode(c, gameId, playerId, testCode) ==
  /\ Free(c) /\ opsLeft > 0
  /\ calls' = [calls EXCEPT ![c] =
        [IdleCall EXCEPT !.op = "submitTestCode", !.pc = "sb_load",
                         !.gid = gameId, !.pid = playerId, !.code = testCode]]
  /\ opsLeft' = opsLeft - 1
  /\ UNCHANGED <<rooms, games, badges, playerStats, activeGames, runs, fs, now, faultsLeft>>

(* submitTestCode without the check of the game state.                     *)
submitTestCode_load_anyState(c) ==
  LET f == calls[c]
      game == games[f.gid]
      playerIndex == PlayerIndex(game, f.pid)
  IN /\ f.pc = "sb_load"
     /\ calls' = [calls EXCEPT ![c] =
          IF game = NoDoc THEN Return(f, Err("Game not found"))
          ELSE IF f.code = "" THEN Return(f, Err("No test code submitted"))
          ELSE IF playerIndex = 0 THEN Return(f, Err("Player not part of this game"))
          ELSE [f EXCEPT !.pc = "sb_save",
                         !.doc = [game EXCEPT !.players[playerIndex].testCode = f.code]]]
     /\ UNCHANGED <<rooms, games, badges, playerStats, activeGames, runs, fs, now, opsLeft, faultsLeft>>

(* Game.findById and the checks on the loaded copy, up to game.save().     *)
(* The Date goes to players[i].submittedAt, a property the schema does not *)
(* have (the timestamp's path is submission.submittedAt): it is set on the *)
(* in-memory object only and is no part of what save() writes.             *)
submitTestCode_load(c) ==
  LET f == calls[c]
      game == games[f.gid]
      playerIndex == PlayerIndex(game, f.pid)
  IN /\ f.pc = "sb_load"
     /\ calls' = [calls EXCEPT ![c] =
          IF game = NoDoc THEN Return(f, Err("Game not found"))
          ELSE IF game.gameState # "playing" THEN Return(f, Err("Game is not active"))
          ELSE IF f.code = "" THEN Return(f, Err("No test code submitted"))
          ELSE IF playerIndex = 0 THEN Return(f, Err("Player not part of this game"))
          ELSE [f EXCEPT !.pc = "sb_save",
                         !.doc = [game EXCEPT !.players[playerIndex].testCode = f.code]]]
     /\ UNCHANGED <<rooms, games, badges, playerStats, activeGames, runs, fs, now, opsLeft, faultsLeft>>

(* try { await game.save() } catch (e) { console.error }, then the success *)
(* result whatever the save did.                                           *)
submitTestCode_save(c) ==
  LET f == calls[c]
      saved == save(games[f.gid], f.doc, {"players"})
  IN /\ f.pc = "sb_save"
     /\ \E fault \in Faults :
          /\ Charge(fault)
          /\ games' = IF fault \/ saved = VersionError THEN games
                      ELSE [games EXCEPT ![f.gid] = saved]
     /\ calls' = [calls EXCEPT ![c] = Return(f, Ok)]
     /\ UNCHANGED <<rooms, badges, playerStats, activeGames, runs, fs, now, opsLeft>>

----------------------------------------------------------------------------
(* GameService.calculatePlayerData and the CodeService pipeline it drives  *)

(* A nested call made by endGame returns into endGame's loop, which only   *)
(* logs the result; a client's call returns to the client.                 *)
(* An auto-calculation that does not look at the submission.               *)
AutoIndex_all(snap, from) ==
  LET need == {k \in from..Len(snap.players) :
                 \/ snap.players[k].mutation.score = 0
                 \/ snap.players[k].lineRate = 0}
  IN IF need = {} THEN 0 ELSE CHOOSE k \in need : \A j \in need : k <= j

AutoIndex(snap, from) ==
  (* the next entry, from index `from` on, that endGame auto-calculates    *)
  LET need == {k \in from..Len(snap.players) :
                 /\ snap.players[k].testCode # ""
                 /\ \/ snap.players[k].mutation.score = 0
                    \/ snap.players[k].lineRate = 0}
  IN IF need = {} THEN 0 ELSE CHOOSE k \in need : \A j \in need : k <= j

(* endGame's for-loop from entry `from` up to its next await: either the   *)
(* nested calculatePlayerData of an incomplete entry, or the reload.       *)
endGameLoop(f, from) ==
  LET k == AutoIndex(f.snap, from)
  IN IF k = 0
     THEN [f EXCEPT !.pc = "eg_reload", !.i = 0, !.doc = NoDoc, !.run = 0,
                    !.pid = "", !.code = "", !.caller = "client"]
     ELSE [f EXCEPT !.pc = "cp_load", !.i = k, !.doc = NoDoc, !.run = 0,
                    !.pid = f.snap.players[k].playerId,
                    !.code = f.snap.players[k].testCode,
                    !.caller = "endGame"]

CalcReturn(f, res) ==
  IF f.caller = "endGame"
  THEN endGameLoop([f EXCEPT !.auto = @ \cup {f.pid}], f.i + 1)
  ELSE Return(f, res)

CallCalculatePlayerData(c, gameId, playerId, testCode) ==
  /\ Free(c) /\ opsLeft > 0
  /\ calls' = [calls EXCEPT ![c] =
        [IdleCall EXCEPT !.op = "calculatePlayerData", !.pc = "cp_load",
                         !.gid = gameId, !.pid = playerId, !.code = testCode]]
  /\ opsLeft' = opsLeft - 1
  /\ UNCHANGED <<rooms, games, badges, playerStats, activeGames, runs, fs, now, faultsLeft>>

(* getPlayer, Game.findById(gameId).populate('codeId'), players.find.      *)
calculatePlayerData_load(c) ==
  LET f == calls[c]
      game == games[f.gid]
  IN /\ f.pc = "cp_load"
     /\ calls' = [calls EXCEPT ![c] =
          IF game = NoDoc THEN CalcReturn(f, Err("Game not found"))
          ELSE IF PlayerIndex(game, f.pid) = 0
            THEN CalcReturn(f, Err("Player not in this game"))
          ELSE [f EXCEPT !.pc = "cp_run", !.doc = game]]
     /\ UNCHANGED <<rooms, games, badges, playerStats, activeGames, runs, fs, now, opsLeft, faultsLeft>>

(* One pipeline run, as recorded in `runs`:                                *)
(*   stage     the stage the runner stopped at ("tests": it ran the tests) *)
(*   result    what compileAndRunCSharpCode returned, NoRes before         *)
(*   art       what generateCoverageReport found on disk, "" before        *)
(*   coverage  what generateCoverageReport returned, NotRun before         *)
(*   fault     the environment fault the run met ("none" if none)          *)
(*   started   the commands the run started, in order                      *)
(*   touched   the paths the stages of the run created, read or deleted    *)
(*   tool      what the mutation tool did for the run ("" if not invoked)  *)
(*   mutation  the mutation report of the run, NotRun if none was made     *)
(*   timer     the 10-minute cleanup timer: none, pending, rm, done        *)
(*   rm        fs.promises.rm calls made on the workspace for this run     *)
(*   rmFailed  those of them that failed                                   *)
NotRun == [notRun |-> TRUE]

(* path.join(tempRootDir, `player_${playerId}_${Date.now()}`)              *)
projectDir(playerId, t) == <<playerId, t>>

(* path.join(process.cwd(), 'temp'): the directory the workspaces are      *)
(* created in, which calculatePlayerData also hands to                     *)
(* generateMutationReport as its projectDir.                               *)
tempRootDir == <<"temp">>

(* The paths a stage works on, as <<directory, name>>.                     *)
(* compileAndRunCSharpCode and generateCoverageReport work on the two      *)
(* projects of the workspace and the TestResults under PlayerTests.        *)
RunnerPaths(dir) == {<<dir, "PlayerCode">>, <<dir, "PlayerTests">>}
CoveragePaths(dir) == {<<dir, "PlayerCode">>, <<dir, "PlayerTests">>}
(* generateMutationReport(playerTestsDir, projectDir): the solution file   *)
(* and the tool's output directory are joined to its projectDir argument.  *)
MutationPaths(playerTestsRoot, dir) ==
  {<<dir, "TempSolution.sln">>, <<dir, "StrykerOutput">>,
   <<playerTestsRoot, "PlayerCode">>, <<playerTestsRoot, "PlayerTests">>}

(* What can go wrong around a run, whatever the test code: the template    *)
(* copy or a write throws, the restore fails, the reference project fails  *)
(* to build.                                                               *)
StageFaults == {"none", "copy", "restore", "build_code"}

(* The commands of a run in the order of the code: dotnet restore, dotnet  *)
(* build of PlayerCode, dotnet build of PlayerTests, dotnet test.          *)
StageOrder == <<"restore", "build_code", "build_tests", "tests">>

(* Whether the command of a stage exits with an error (execSync throws):   *)
(* the environment fault hits it, or the test project does not compile.    *)
StageFails(stage, fault, builds) ==
  \/ stage = fault
  \/ stage = "build_tests" /\ ~builds

(* A runner that starts every command whatever the one before did.         *)
runStages_all(k, fault, builds) == SubSeq(StageOrder, k, Len(StageOrder))

(* The commands started from stage k on: each is started only when the one *)
(* before returned; the catch of a failing one cleans up and rethrows.     *)
RECURSIVE runStages(_, _, _)
runStages(k, fault, builds) ==
  IF k > Len(StageOrder) THEN << >>
  ELSE IF StageFails(StageOrder[k], fault, builds) THEN <<StageOrder[k]>>
  ELSE <<StageOrder[k]>> \o runStages(k + 1, fault, builds)

(* The prefix of the message of the Error a stage's catch throws, which    *)
(* the outer catch returns as the result's error.                          *)
StageError(stage) ==
  CASE stage = "restore" -> "NuGet Restore Error"
    [] stage = "build_code" -> "Build Error in PlayerCode"
    [] stage = "build_tests" -> "Build Error in PlayerTests"
    [] OTHER -> stage

(* compileAndRunCSharpCode from its first line to the launch of `dotnet    *)
(* test`: one synchronous stretch (mkdirSync, cpSync, writeFileSync and    *)
(* three execSync).  It ends at exec(runCmd), or, when a stage throws, in  *)
(* the fs.promises.rm that _cleanupProjectDir awaits.                      *)
(*   tick   whether the millisecond clock moved since the last Date.now(); *)
(*          it can stand still only if the run before stopped at the       *)
(*          template copy (every other run blocks the event loop for the   *)
(*          whole restore, far longer than a millisecond)                  *)
(*   fault  the environment fault met, if any                              *)
compileAndRunCSharpCode(c, tick, fault) ==
  LET f == calls[c]
      gamePlayer == f.doc.players[PlayerIndex(f.doc, f.pid)]
      tests == gamePlayer.testCode
  IN /\ f.pc = "cp_run"
     /\ fault # "none" => faultsLeft > 0
     /\ tick = 0 => (runs # << >> /\ runs[Len(runs)].stage = "copy")
     /\   LET dir == projectDir(f.pid, now + tick)
              started == IF fault = "copy" THEN << >>
                         ELSE runStages(1, fault, Profile(tests).builds)
              stage == IF started = << >> THEN "copy" ELSE started[Len(started)]
          IN /\ now' = now + tick
             /\ Charge(fault # "none")
             /\ fs' = fs \cup {dir}
             /\ runs' = Append(runs, [playerId |-> f.pid, projectDir |-> dir,
                                      tests |-> tests, fault |-> fault,
                                      started |-> started, stage |-> stage,
                                      result |-> NoRes, coverage |-> NotRun,
                                      art |-> "", tool |-> "",
                                      touched |-> RunnerPaths(dir),
                                      mutation |-> NotRun, timer |-> "none",
                                      rm |-> IF stage = "tests" THEN 0 ELSE 1,
                                      rmFailed |-> 0])
             /\ calls' = [calls EXCEPT ![c] =
                  [f EXCEPT !.run = Len(runs) + 1,
                            !.pc = IF stage = "tests" THEN "cp_test"
                                   ELSE IF stage = "copy" THEN "cp_rm2"
                                   ELSE "cp_rm1"]]
     /\ UNCHANGED <<rooms, games, badges, playerStats, activeGames, opsLeft>>

(* The rm that _cleanupProjectDir awaits completes (or fails, which is     *)
(* logged); the stage's catch then rethrows into the outer catch, whose    *)
(* own _cleanupProjectDir removes the directory only if it still exists,   *)
(* and the failure result is returned.                                     *)
cleanupProjectDir(c) ==
  LET f == calls[c]
      r == runs[f.run]
  IN /\ f.pc \in {"cp_rm1", "cp_rm2"}
     /\ \E fault \in Faults :
          LET left == IF fault THEN fs ELSE fs \ {r.projectDir}
              again == f.pc = "cp_rm1" /\ r.projectDir \in left
          IN /\ Charge(fault)
             /\ fs' = left
             /\ runs' = [runs EXCEPT
                           ![f.run].rm = IF again THEN @ + 1 ELSE @,
                           ![f.run].rmFailed = IF fault THEN @ + 1 ELSE @,
                           ![f.run].result = IF again THEN @ ELSE Err(StageError(r.stage))]
             /\ calls' = [calls EXCEPT ![c] =
                  IF again THEN [f EXCEPT !.pc = "cp_rm2"]
                  ELSE CalcReturn(f, Err(StageError(r.stage)))]
     /\ UNCHANGED <<rooms, games, badges, playerStats, activeGames, now, opsLeft>>

(* compositeScore, in hundredths, from the mutation score, branch rate and *)
(* coverage summary in tenths of a percent, the line count and the seconds *)
totalScore_clamped(mutationScore, branchRate, coverageSummary, testLines, executionTime) ==
  LET raw == (mutationScore * 4) + (branchRate * 2) + (coverageSummary * 2)
             + (testLines * 10) - (executionTime * 10)
  IN IF raw < 0 THEN 0 ELSE IF raw > 10000 THEN 10000 ELSE raw

totalScore(mutationScore, branchRate, coverageSummary, testLines, executionTime) ==
  (mutationScore * 4) + (branchRate * 2) + (coverageSummary * 2)
  + (testLines * 10) - (executionTime * 10)

CoverageArtifacts == {"xml", "none", "nofile", "unreadable", "noclass"}
MutationTool == {"ok", "unavailable", "sln", "timeout", "noreport", "badjson"}

(* The entry as calculatePlayerData rewrites it (lines 367-394).           *)
scoredEntry(gamePlayer, testCode, runCode, coverageReport, testLines, mutationReport) ==
  [gamePlayer EXCEPT
     !.testCode = testCode,
     !.stats = runCode.stats,
     !.submittedAt = "calculatePlayerData",
     !.totalScore = totalScore(mutationReport.summary.mutationScore,
                               coverageReport.branchRate,
                               coverageReport.coverageSummary,
                               testLines, runCode.executionTime),
     !.lineCoverage = coverageReport.lineCoverage,
     !.lineRate = coverageReport.lineRate,
     !.branchCoverage = coverageReport.branchRate,
     !.coverageSummary = coverageReport.coverageSummary,
     !.mutation = [score |-> mutationReport.summary.mutationScore,
                   total |-> mutationReport.summary.totalMutants,
                   killed |-> mutationReport.summary.killed,
                   survived |-> mutationReport.summary.survived,
                   timeout |-> mutationReport.summary.timeout,
                   noCoverage |-> mutationReport.summary.noCoverage],
     !.testLines = testLines,
     !.executionTime = runCode.executionTime]

(* The result object the exec callback resolves with.                      *)
runResults(prof) ==
  [success |-> TRUE,
   allTestsPassed |-> prof.failed = 0,
   stats |-> [passed |-> prof.passed, failed |-> prof.failed,
              total |-> prof.passed + prof.failed, executionTime |-> prof.secs],
   executionTime |-> prof.secs]

(* The exec callback of `dotnet test` and everything calculatePlayerData   *)
(* does on its result before the next real await: the cleanup timer is     *)
(* set, then generateCoverageReport, calculateTestLines and                *)
(* generateMutationReport run (their bodies are synchronous: execSync and  *)
(* fs.*Sync), and the entry of the loaded copy is rewritten.               *)
(*   art    what the instrumented run left on disk                         *)
(*   tool   what the mutation tool did                                     *)
calculatePlayerData_test(c, art, tool) ==
  LET f == calls[c]
      r == runs[f.run]
      prof == Profile(r.tests)
      runCode == runResults(prof)
      playerIndex == PlayerIndex(f.doc, f.pid)
  IN /\ f.pc = "cp_test"
     /\ (art # "xml" \/ tool # "ok") => faultsLeft > 0
     /\   LET coverageReport == generateCoverageReport(r.projectDir \in fs, art, prof)
              testLines == calculateTestLines(BaseCode).totalTestLines
              mutationReport == generateMutationReport(tool, prof.mutants)
          IN /\ art = "xml" \/ tool = "ok"
             /\ coverageReport = Rejected => tool = "ok"
             /\ Charge(art # "xml" \/ tool # "ok")
             /\ runs' = [runs EXCEPT
                           ![f.run].timer = "pending",
                           ![f.run].result = [success |-> runCode.success, error |-> ""],
                           ![f.run].art = IF r.projectDir \in fs THEN art ELSE "",
                           ![f.run].coverage = coverageReport,
                           ![f.run].tool = IF coverageReport = Rejected THEN "" ELSE tool,
                           ![f.run].touched =
                              @ \cup CoveragePaths(r.projectDir)
                                \cup (IF coverageReport = Rejected THEN {}
                                      ELSE MutationPaths(r.projectDir, tempRootDir)),
                           ![f.run].mutation = IF coverageReport = Rejected THEN NotRun
                                               ELSE mutationReport]
             /\ calls' = [calls EXCEPT ![c] =
                  IF ~runCode.success THEN CalcReturn(f, Err("run"))
                  ELSE IF coverageReport = Rejected
                    THEN CalcReturn(f, Err("Cannot read properties of undefined"))
                  ELSE IF ~mutationReport.success
                    THEN CalcReturn(f, Err(mutationReport.error))
                  ELSE [f EXCEPT !.pc = "cp_save",
                          !.doc.players[playerIndex] =
                             scoredEntry(f.doc.players[playerIndex], f.code, runCode,
                                         coverageReport, testLines, mutationReport)]]
     /\ UNCHANGED <<rooms, games, badges, playerStats, activeGames, fs, now, opsLeft>>

(* await game.save() and the success result.                               *)
calculatePlayerData_save(c) ==
  LET f == calls[c]
      saved == save(games[f.gid], f.doc, {"players"})
  IN /\ f.pc = "cp_save"
     /\ \E fault \in Faults :
          /\ Charge(fault)
          /\ IF fault \/ saved = VersionError
             THEN /\ calls' = [calls EXCEPT ![c] = CalcReturn(f, Err("save failed"))]
                  /\ UNCHANGED games
             ELSE /\ games' = [games EXCEPT ![f.gid] = saved]
                  /\ calls' = [calls EXCEPT ![c] = CalcReturn(f, Ok)]
     /\ UNCHANGED <<rooms, badges, playerStats, activeGames, runs, fs, now, opsLeft>>

(* A timer callback that returns without removing anything.                *)
cleanupTimer_skip(r) ==
  /\ runs[r].timer = "pending"
  /\ runs' = [runs EXCEPT ![r].timer = "done"]
  /\ UNCHANGED <<rooms, games, badges, playerStats, activeGames, calls, fs, now, opsLeft, faultsLeft>>

(* The setTimeout callback of a successful run: _cleanupProjectDir up to   *)
(* its await of fs.promises.rm.                                            *)
cleanupTimer(r) ==
  /\ runs[r].timer = "pending"
  /\ runs' = [runs EXCEPT ![r].timer = IF runs[r].projectDir \in fs THEN "rm" ELSE "done",
                          ![r].rm = IF runs[r].projectDir \in fs THEN @ + 1 ELSE @]
  /\ UNCHANGED <<rooms, games, badges, playerStats, activeGames, calls, fs, now, opsLeft, faultsLeft>>

(* ... and the completion of that rm.                                      *)
cleanupTimer_rm(r) ==
  /\ runs[r].timer = "rm"
  /\ \E fault \in Faults :
       /\ Charge(fault)
       /\ fs' = IF fault THEN fs ELSE fs \ {runs[r].projectDir}
       /\ runs' = [runs EXCEPT ![r].timer = "done",
                               ![r].rmFailed = IF fault THEN @ + 1 ELSE @]
  /\ UNCHANGED <<rooms, games, badges, playerStats, activeGames, calls, now, opsLeft>>

----------------------------------------------------------------------------
(* GameService.endGame *)

CallEndGame(c, gameId) ==
  /\ Free(c) /\ opsLeft > 0
  /\ calls' = [calls EXCEPT ![c] =
        [IdleCall EXCEPT !.op = "endGame", !.pc = "eg_load", !.gid = gameId]]
  /\ opsLeft' = opsLeft - 1
  /\ UNCHANGED <<rooms, games, badges, playerStats, activeGames, runs, fs, now, faultsLeft>>

(* Game.findById, the 'finished' check, and the auto-calculation loop up   *)
(* to its first await.                                                     *)
endGame_load(c) ==
  LET f == calls[c]
      game == games[f.gid]
  IN /\ f.pc = "eg_load"
     /\ calls' = [calls EXCEPT ![c] =
          IF game = NoDoc THEN Return(f, Err("Game not found"))
          ELSE IF game.gameState = "finished"
            THEN Return(f, [success |-> TRUE, error |-> "Game already finished"])
          ELSE endGameLoop([f EXCEPT !.snap = game], 1)]
     /\ UNCHANGED <<rooms, games, badges, playerStats, activeGames, runs, fs, now, opsLeft, faultsLeft>>

(* await game.save() of the unmodified first copy (nothing to write), then *)
(* updatedGame = await Game.findById(gameId).                              *)
endGame_reload(c) ==
  LET f == calls[c]
  IN /\ f.pc = "eg_reload"
     /\ calls' = [calls EXCEPT ![c] = [f EXCEPT !.pc = "eg_finish", !.doc = games[f.gid]]]
     /\ UNCHANGED <<rooms, games, badges, playerStats, activeGames, runs, fs, now, opsLeft, faultsLeft>>

(* A ranking in which entries with the same score share their rank.        *)
ranking_shared(players, k) ==
  1 + Cardinality({j \in 1..Len(players) :
                     players[j].totalScore > players[k].totalScore})

(* playerScores.sort((a, b) => b.totalScore - a.totalScore) and            *)
(* findIndex(...) + 1: the sort is stable, so an entry is preceded by the  *)
(* entries with a higher score and the earlier entries with the same one.  *)
ranking(players, k) ==
  1 + Cardinality({j \in 1..Len(players) :
                     \/ players[j].totalScore > players[k].totalScore
                     \/ players[j].totalScore = players[k].totalScore /\ j < k})

InSeq(x, seq) == \E k \in 1..Len(seq) : seq[k] = x

(* Badge.findOne({condition}) and the includes() test before each push.    *)
award(condition, earned) ==
  IF condition \in badges /\ ~InSeq(condition, earned) THEN <<condition>> ELSE << >>

(* The tiers as independent ifs.                                           *)
coverageBadge_all(lineRate, earned) ==
  (IF lineRate = 1000 THEN award("coverage_platinum", earned) ELSE << >>)
  \o (IF lineRate >= 900 THEN award("coverage_gold", earned) ELSE << >>)
  \o (IF lineRate >= 800 THEN award("coverage_silver", earned) ELSE << >>)
  \o (IF lineRate >= 700 THEN award("coverage_bronze", earned) ELSE << >>)

(* The coverage-tier chain of if / else if (lines 643-669).                *)
coverageBadge(lineRate, earned) ==
  IF lineRate = 1000 THEN award("coverage_platinum", earned)
  ELSE IF lineRate >= 900 THEN award("coverage_gold", earned)
  ELSE IF lineRate >= 800 THEN award("coverage_silver", earned)
  ELSE IF lineRate >= 700 THEN award("coverage_bronze", earned)
  ELSE << >>

(* A speed badge for every execution time below 5, 0 included.             *)
speedBadge_anyTime(executionTime, earned) ==
  IF executionTime < 5 THEN award("lightning_tester", earned) ELSE << >>

(* The Lightning Tester test (lines 671-678).                              *)
speedBadge(executionTime, earned) ==
  IF executionTime > 0 /\ executionTime < 5
  THEN award("lightning_tester", earned) ELSE << >>

(* The badges one iteration of the award loop pushes to an entry.          *)
newBadges(players, k) ==
  LET gamePlayer == players[k]
      earned == gamePlayer.badgesEarned
  IN (IF gamePlayer.mutation.score >= 800 THEN award("mutation_slayer", earned) ELSE << >>)
     \o coverageBadge(gamePlayer.lineRate, earned)
     \o speedBadge(gamePlayer.executionTime, earned)
     \o (IF ranking(players, k) = 1 THEN award("first_place", earned)
         ELSE IF ranking(players, k) = 2 THEN award("second_place", earned)
         ELSE << >>)

(* updatedGame after the ranking and badge loop, marked finished.          *)
finishedGame(updatedGame) ==
  [updatedGame EXCEPT
     !.players = [k \in 1..Len(updatedGame.players) |->
                    [updatedGame.players[k] EXCEPT
                       !.badgesEarned = @ \o newBadges(updatedGame.players, k)]],
     !.totalDuration = (now - updatedGame.startedAt + 500) \div 1000,
     !.gameState = "finished"]

(* The ranking, the badge loop and await updatedGame.save().  The loop     *)
(* awaits Badge.findOne between its pushes; it works on the private copy   *)
(* updatedGame and the Badge collection does not change, so the stretch    *)
(* from the reload to the save is taken as one step.  The next             *)
(* statement, this.roomService.deleteRoom(...), names a method RoomService *)
(* does not have: the TypeError lands in endGame's catch, which returns a  *)
(* failure; the statistics loop over the Player documents (lines 715-750)  *)
(* and activeGames.delete are never reached.                               *)
endGame_finish(c) ==
  LET f == calls[c]
      saved == save(games[f.gid], finishedGame(f.doc),
                    {"players", "gameState", "totalDuration"})
  IN /\ f.pc = "eg_finish"
     /\ \E fault \in Faults :
          /\ Charge(fault)
          /\ IF fault \/ saved = VersionError
             THEN /\ calls' = [calls EXCEPT ![c] = Return(f, Err("save failed"))]
                  /\ UNCHANGED games
             ELSE /\ games' = [games EXCEPT ![f.gid] = saved]
                  /\ calls' = [calls EXCEPT ![c] =
                       Return(f, Err("this.roomService.deleteRoom is not a function"))]
     /\ UNCHANGED <<rooms, badges, playerStats, activeGames, runs, fs, now, opsLeft>>

----------------------------------------------------------------------------
(* The service driven by its clients from a fresh room: any player starts  *)
(* a game, submits, asks for scoring or ends a game it knows.              *)

Next ==
  \/ \E c \in DOMAIN calls, p \in PlayerIds : CallStartGame(c, p)
  \/ \E c \in DOMAIN calls : startGame_room(c)
  \/ \E c \in DOMAIN calls : startGame_save(c)
  \/ \E c \in DOMAIN calls : startGame_update(c)
  \/ \E c \in DOMAIN calls, g \in KnownGames, p \in PlayerIds, t \in TestCodes \cup {""} :
       CallSubmitTestCode(c, g, p, t)
  \/ \E c \in DOMAIN calls : submitTestCode_load(c)
  \/ \E c \in DOMAIN calls : submitTestCode_save(c)
  \/ \E c \in DOMAIN calls, g \in KnownGames, p \in PlayerIds, t \in TestCodes :
       CallCalculatePlayerData(c, g, p, t)
  \/ \E c \in DOMAIN calls : calculatePlayerData_load(c)
  \/ \E c \in DOMAIN calls, fault \in StageFaults : compileAndRunCSharpCode(c, 1, fault)
  \/ \E c \in DOMAIN calls : cleanupProjectDir(c)
  \/ \E c \in DOMAIN calls, art \in {"xml", "nofile"}, tool \in {"ok", "noreport"} :
       calculatePlayerData_test(c, art, tool)
  \/ \E c \in DOMAIN calls : calculatePlayerData_save(c)
  \/ \E c \in DOMAIN calls, g \in KnownGames : CallEndGame(c, g)
  \/ \E c \in DOMAIN calls : endGame_load(c)
  \/ \E c \in DOMAIN calls : endGame_reload(c)
  \/ \E c \in DOMAIN calls : endGame_finish(c)

Spec == Init /\ [][Next]_vars

----------------------------------------------------------------------------
(* startGame alone, with I/O faults: concurrent and repeated starts.       *)

(* The rooms a start can meet: everybody ready, one player not ready, one  *)
(* player alone (the other player is then in no room).                     *)
StartRooms ==
  {InitRoom,
   [InitRoom EXCEPT !.ready = {Players[1]}],
   [InitRoom EXCEPT !.players = <<Players[1]>>, !.ready = {Players[1]}]}

InitStart ==
  /\ badges = AllBadges
  /\ \E room \in StartRooms : FreshWith(room, MaxCalls, MaxOps, MaxFaults)

NextStart ==
  \/ \E c \in DOMAIN calls, p \in PlayerIds : CallStartGame(c, p)
  \/ \E c \in DOMAIN calls : startGame_room(c)
  \/ \E c \in DOMAIN calls : startGame_save(c)
  \/ \E c \in DOMAIN calls : startGame_update(c)

SpecStart == InitStart /\ [][NextStart]_vars

----------------------------------------------------------------------------
(* One round: the state a successful startGame leaves (the game playing,   *)
(* the room playing, the game registered), then submissions, scoring and   *)
(* the end of the game, with I/O faults.                                   *)

PlayingGame ==
  [roomCode |-> RoomCode,
   players |-> [k \in 1..Len(Players) |-> GamePlayer(Players[k])],
   gameState |-> "playing", startedAt |-> 0, finishedAt |-> NoDate,
   winner |-> NoWinner, totalDuration |-> 0, v |-> 0]

Started(ncalls, ops, faults, game) ==
  /\ rooms = [r \in {RoomCode} |-> [InitRoom EXCEPT !.gameState = "playing"]]
  /\ games = [g \in GameIds |-> IF g = 1 THEN game ELSE NoDoc]
  /\ playerStats = [p \in PlayerIds |-> NewPlayer]
  /\ activeGames = {1}
  /\ calls = [c \in 1..ncalls |-> IdleCall]
  /\ runs = << >>
  /\ fs = {}
  /\ now = 0
  /\ opsLeft = ops
  /\ faultsLeft = faults

(* The game after the submissions subs (player index -> stored code): each *)
(* successful submitTestCode stores a code and increments the version.     *)
Submitted(subs) ==
  [PlayingGame EXCEPT
     !.players = [k \in 1..Len(Players) |-> [GamePlayer(Players[k]) EXCEPT !.testCode = subs[k]]],
     !.v = Cardinality({k \in 1..Len(Players) : subs[k] # ""})]

(* The codes in play in a round (both build).                              *)
GameCodes == {"tA", "tB"}

(* The Badge collection is seeded outside the services: every game badge   *)
(* defined, or the top coverage badge missing.                             *)
BadgeSeeds == {AllBadges, AllBadges \ {"coverage_platinum"}}

InitGame ==
  /\ badges \in BadgeSeeds
  /\ \E subs \in [1..Len(Players) -> GameCodes \cup {""}] :
        Started(MaxCalls, MaxGameOps, MaxFaults, Submitted(subs))

NextGame ==
  \/ \E c \in DOMAIN calls, p \in PlayerIds \cup {Outsider}, t \in GameCodes \cup {""} :
       CallSubmitTestCode(c, 1, p, t)
  \/ \E c \in DOMAIN calls : submitTestCode_load(c)
  \/ \E c \in DOMAIN calls : submitTestCode_save(c)
  \/ \E c \in DOMAIN calls, p \in PlayerIds, t \in GameCodes :
       CallCalculatePlayerData(c, 1, p, t)
  \/ \E c \in DOMAIN calls : calculatePlayerData_load(c)
  \/ \E c \in DOMAIN calls, fault \in {"none", "restore"} :
       compileAndRunCSharpCode(c, 1, fault)
  \/ \E c \in DOMAIN calls : cleanupProjectDir(c)
  \/ \E c \in DOMAIN calls, art \in {"xml", "nofile"}, tool \in {"ok", "noreport"} :
       calculatePlayerData_test(c, art, tool)
  \/ \E c \in DOMAIN calls : calculatePlayerData_save(c)
  \/ \E c \in DOMAIN calls : CallEndGame(c, 1)
  \/ \E c \in DOMAIN calls : endGame_load(c)
  \/ \E c \in DOMAIN calls : endGame_reload(c)
  \/ \E c \in DOMAIN calls : endGame_finish(c)

SpecGame == InitGame /\ [][NextGame]_vars

----------------------------------------------------------------------------
(* The pipeline alone: scoring calls on a playing game with stored         *)
(* submissions, every stage fault, every coverage artifact and mutation    *)
(* tool outcome, runs that start within one millisecond, and the cleanup   *)
(* timers.                                                                 *)

MaxPipeOps == 2

(* The codes stored in a pipeline round: one with a failing test, one that *)
(* does not build, one whose tests hang.                                   *)
PipeCodes == {"tB", "tC", "tH"}

InitPipe ==
  /\ badges = AllBadges
  /\ \E subs \in [1..Len(Players) -> PipeCodes] :
        Started(MaxCalls, MaxPipeOps, MaxFaults, Submitted(subs))

(* The steps the event loop takes on its own once a call is in.            *)
PipeSteps ==
  \/ \E c \in DOMAIN calls : calculatePlayerData_load(c)
  \/ \E c \in DOMAIN calls, tick \in {0, 1}, fault \in StageFaults :
       compileAndRunCSharpCode(c, tick, fault)
  \/ \E c \in DOMAIN calls : cleanupProjectDir(c)
  \/ \E c \in DOMAIN calls, art \in CoverageArtifacts, tool \in MutationTool :
       calculatePlayerData_test(c, art, tool)
  \/ \E c \in DOMAIN calls : calculatePlayerData_save(c)
  \/ \E r \in DOMAIN runs : cleanupTimer(r)
  \/ \E r \in DOMAIN runs : cleanupTimer_rm(r)

NextPipe ==
  \/ \E c \in DOMAIN calls, p \in PlayerIds : CallCalculatePlayerData(c, 1, p, "tB")
  \/ PipeSteps

SpecPipe == InitPipe /\ [][NextPipe]_vars

----------------------------------------------------------------------------
(* The life of the workspaces: the same calls with every stage fault and   *)
(* every removal fault, the coverage and mutation stages answering         *)
(* normally.  The process keeps running and its timers fire: a step the    *)
(* event loop can take is eventually taken.                                *)

InitCleanup ==
  /\ badges = AllBadges
  /\ \E subs \in [1..Len(Players) -> {"tB", "tC"}] :
        Started(MaxCalls, MaxPipeOps, MaxFaults, Submitted(subs))

CleanupSteps ==
  \/ \E c \in DOMAIN calls : calculatePlayerData_load(c)
  \/ \E c \in DOMAIN calls, tick \in {0, 1}, fault \in StageFaults :
       compileAndRunCSharpCode(c, tick, fault)
  \/ \E c \in DOMAIN calls : cleanupProjectDir(c)
  \/ \E c \in DOMAIN calls : calculatePlayerData_test(c, "xml", "ok")
  \/ \E c \in DOMAIN calls : calculatePlayerData_save(c)
  \/ \E r \in DOMAIN runs : cleanupTimer(r)
  \/ \E r \in DOMAIN runs : cleanupTimer_rm(r)

NextCleanup ==
  \/ \E c \in DOMAIN calls, p \in PlayerIds : CallCalculatePlayerData(c, 1, p, "tB")
  \/ CleanupSteps

SpecCleanup == InitCleanup /\ [][NextCleanup]_vars /\ WF_vars(CleanupSteps)

----------------------------------------------------------------------------
(* The stages of the runner: the same calls with every stage fault, and    *)
(* removals that can fail each time they are tried (a file of the          *)
(* workspace still held open makes both removals of a failed run fail).    *)

MaxStageFaults == 3

InitStages ==
  /\ badges = AllBadges
  /\ \E subs \in [1..Len(Players) -> {"tB", "tC"}] :
        Started(MaxCalls, MaxPipeOps, MaxStageFaults, Submitted(subs))

NextStages ==
  \/ \E c \in DOMAIN calls, p \in PlayerIds : CallCalculatePlayerData(c, 1, p, "tB")
  \/ \E c \in DOMAIN calls : calculatePlayerData_load(c)
  \/ \E c \in DOMAIN calls, fault \in StageFaults : compileAndRunCSharpCode(c, 1, fault)
  \/ \E c \in DOMAIN calls : cleanupProjectDir(c)
  \/ \E c \in DOMAIN calls : calculatePlayerData_test(c, "xml", "ok")
  \/ \E c \in DOMAIN calls : calculatePlayerData_save(c)
  \/ \E r \in DOMAIN runs : cleanupTimer(r)
  \/ \E r \in DOMAIN runs : cleanupTimer_rm(r)

SpecStages == InitStages /\ [][NextStages]_vars

----------------------------------------------------------------------------
(* Five scoring requests at once, no faults.  The requests are admitted,  *)
(* loaded and built in the order they arrive; their test runs end in any   *)
(* order.                                                                  *)

MaxSubmissions == 5

InitThrottle ==
  /\ badges = AllBadges
  /\ Started(MaxSubmissions, MaxSubmissions, 0, Submitted([k \in 1..Len(Players) |-> "tB"]))

NextThrottle ==
  \/ \E c \in DOMAIN calls, p \in PlayerIds :
       /\ \A d \in DOMAIN calls : d < c => calls[d].pc # "idle"
       /\ calls[c].pc = "idle"
       /\ CallCalculatePlayerData(c, 1, p, "tB")
  \/ \E c \in DOMAIN calls :
       /\ \A d \in DOMAIN calls : d < c => calls[d].pc \notin {"idle", "cp_load"}
       /\ calculatePlayerData_load(c)
  \/ \E c \in DOMAIN calls :
       /\ \A d \in DOMAIN calls : d < c => calls[d].pc \notin {"idle", "cp_load", "cp_run"}
       /\ compileAndRunCSharpCode(c, 1, "none")
  \/ \E c \in DOMAIN calls : calculatePlayerData_test(c, "xml", "ok")
  \/ \E c \in DOMAIN calls : calculatePlayerData_save(c)

SpecThrottle == InitThrottle /\ [][NextThrottle]_vars

----------------------------------------------------------------------------
(* Scoring with a deterministic toolchain and no faults: every stage       *)
(* answers what the profile of the code says.                              *)

InitScoring ==
  /\ badges = AllBadges
  /\ \E subs \in [1..Len(Players) -> GameCodes \cup {""}] :
        Started(MaxCalls, MaxGameOps, 0, Submitted(subs))

NextScoring ==
  \/ \E c \in DOMAIN calls, p \in PlayerIds, t \in GameCodes :
       CallCalculatePlayerData(c, 1, p, t)
  \/ \E c \in DOMAIN calls : calculatePlayerData_load(c)
  \/ \E c \in DOMAIN calls : compileAndRunCSharpCode(c, 1, "none")
  \/ \E c \in DOMAIN calls : calculatePlayerData_test(c, "xml", "ok")
  \/ \E c \in DOMAIN calls : calculatePlayerData_save(c)

SpecScoring == InitScoring /\ [][NextScoring]_vars

----------------------------------------------------------------------------
(* The mutation analyzer on its own: generateMutationReport is called on   *)
(* the workspace of a run whose tests ran, and the report file the tool    *)
(* left holds any list of mutants, of any status, up to MaxMutants.        *)

MaxMutants == 3

(* The status values of the mutants of a report: the four the summary      *)
(* counts and one it does not.                                             *)
MutantStatuses == {"Killed", "Survived", "Timeout", "NoCoverage", "Ignored"}

(* The mutants of a report file, as the list of their statuses.            *)
Reports == UNION {[1..n -> MutantStatuses] : n \in 0..MaxMutants}

(* generateMutationReport(playerTestsDir, projectDir) on run r.            *)
mutationStage(r, tool, mutants) ==
  /\ runs[r].stage = "tests" /\ runs[r].mutation = NotRun
  /\ runs' = [runs EXCEPT
                ![r].tool = tool,
                ![r].touched = @ \cup MutationPaths(runs[r].projectDir, tempRootDir),
                ![r].mutation = generateMutationReport(tool, mutants)]
  /\ UNCHANGED <<rooms, games, badges, playerStats, activeGames, calls, fs, now, opsLeft, faultsLeft>>

InitReport ==
  /\ badges = AllBadges
  /\ rooms = [r \in {RoomCode} |-> [InitRoom EXCEPT !.gameState = "playing"]]
  /\ games = [g \in GameIds |-> IF g = 1 THEN Submitted([k \in 1..Len(Players) |-> "tB"]) ELSE NoDoc]
  /\ playerStats = [p \in PlayerIds |-> NewPlayer]
  /\ activeGames = {1}
  /\ calls = [c \in 1..MaxCalls |-> IdleCall]
  /\ now = 1
  /\ fs = {projectDir(Players[1], now)}
  /\ runs = <<[playerId |-> Players[1], projectDir |-> projectDir(Players[1], now),
               tests |-> "tB", fault |-> "none",
               started |-> runStages(1, "none", TRUE), stage |-> "tests",
               result |-> Ok, coverage |-> NotRun, art |-> "", tool |-> "",
               touched |-> RunnerPaths(projectDir(Players[1], now)),
               mutation |-> NotRun, timer |-> "pending", rm |-> 0, rmFailed |-> 0]>>
  /\ opsLeft = 0
  /\ faultsLeft = 0

NextReport ==
  \E r \in DOMAIN runs, tool \in MutationTool, mutants \in Reports :
     mutationStage(r, tool, mutants)

SpecReport == InitReport /\ [][NextReport]_vars

----------------------------------------------------------------------------
(* Claims *)

StateRank(gameState) ==
  CASE gameState = "waiting" -> 0
    [] gameState = "playing" -> 1
    [] gameState = "finished" -> 2

(* C1: over any interleaving of startGame, submitTestCode,                 *)
(* calculatePlayerData and endGame a stored game never disappears and its  *)
(* state never moves backward along waiting -> playing -> finished.        *)
C1_StateOnlyMovesForward ==
  [][\A g \in GameIds :
       games[g] # NoDoc =>
         /\ games'[g] # NoDoc
         /\ StateRank(games'[g].gameState) >= StateRank(games[g].gameState)]_vars

(* C1 witness: a game is finished while a calculatePlayerData call that    *)
(* loaded it is still about to save its copy.                              *)
C1_Witness ==
  \E c \in DOMAIN calls :
     /\ calls[c].pc = "cp_save"
     /\ calls[c].doc.gameState = "playing"
     /\ games[calls[c].gid].gameState = "finished"

(* C2: endGame called on a game that is already finished returns a failure *)
(* result (success = false) and changes nothing.                           *)
C2_EndGameOnFinishedIsRejected ==
  [][\A c \in DOMAIN calls :
       (/\ calls[c].pc = "eg_load"
        /\ games[calls[c].gid] # NoDoc
        /\ games[calls[c].gid].gameState = "finished"
        /\ calls'[c].pc = "done")
       => (calls'[c].res.success = FALSE /\ games' = games /\ rooms' = rooms)]_vars

(* C3: at most one game of a room is in state 'playing'.                   *)
C3_OnePlayingGamePerRoom ==
  \A r \in DOMAIN rooms :
     Cardinality({g \in GameIds : /\ games[g] # NoDoc
                                  /\ games[g].roomCode = r
                                  /\ games[g].gameState = "playing"}) <= 1

(* C4: with five simultaneous scoring requests never more than three       *)
(* pipelines are mid-execution (their test process running) at once.       *)
C4_AtMostThreeMidExecution ==
  Cardinality({c \in DOMAIN calls : calls[c].pc = "cp_test"}) <= 3

(* C5: two pipeline runs in progress at the same time never have the same  *)
(* workspace root path, also when they are runs of the same player that    *)
(* start within the same clock tick.                                       *)
C5_WorkspacePathsDiffer ==
  \A c, d \in DOMAIN calls :
     (c # d /\ calls[c].run # 0 /\ calls[d].run # 0)
     => runs[calls[c].run].projectDir # runs[calls[d].run].projectDir

RmFailedOn(dir) ==
  \E r \in DOMAIN runs : runs[r].projectDir = dir /\ runs[r].rmFailed > 0

C7_OnlyStageFailuresAndTimeoutFail ==
  \A r \in DOMAIN runs :
     runs[r].result # NoRes =>
       LET prof == Profile(runs[r].tests)
           ran == runs[r].stage = "tests"
       IN /\ (ran /\ ~prof.hangs /\ prof.failed > 0)
               => (runs[r].result.success /\ runs[r].coverage # NotRun)
          /\ (~runs[r].result.success)
               <=> \/ runs[r].stage \in {"restore", "build_code", "build_tests"}
                   \/ ran /\ prof.hangs

(* The composite score in hundredths, from percentages in tenths.          *)
CompositeScore(ms, br, cs, tl, et) == 4 * ms + 2 * br + 2 * cs + 10 * tl - 10 * et

(* C8: the composite score stored on an entry is mutation*0.4 +            *)
(* branchRate*0.2 + coverageSummary*0.2 + testLines*0.1 - seconds*0.1 of   *)
(* the metrics stored on the same entry, unclamped; the scoring function   *)
(* gives 68.8 for 80, 90, 85, 20, 2.                                       *)
C8_StoredScoreIsFormula ==
  /\ totalScore(800, 900, 850, 20, 2) = 6880
  /\ \A g \in GameIds :
       games[g] # NoDoc =>
         \A k \in 1..Len(games[g].players) :
            LET e == games[g].players[k]
            IN e.totalScore = CompositeScore(e.mutation.score, e.branchCoverage,
                                             e.coverageSummary, e.testLines,
                                             e.executionTime)

(* C8 witness: a scored entry whose stored score is negative, and one      *)
(* whose stored score is positive.                                         *)
C8_Witness ==
  \E g \in GameIds :
     /\ games[g] # NoDoc
     /\ \E k \in 1..Len(games[g].players) :
          games[g].players[k].executionTime > 0 /\ games[g].players[k].totalScore < 0
     /\ \E k \in 1..Len(games[g].players) :
          games[g].players[k].executionTime > 0 /\ games[g].players[k].totalScore > 0

(* C9: when the instrumented run leaves no coverage artifact the coverage  *)
(* report has success = true, line rate 0, branch rate 0 and an empty      *)
(* per-line list.                                                          *)
C9_NoArtifactGivesEmptyReport ==
  \A r \in DOMAIN runs :
     runs[r].art \in {"none", "nofile"} =>
       /\ runs[r].coverage # Rejected
       /\ runs[r].coverage.success
       /\ runs[r].coverage.lineRate = 0
       /\ runs[r].coverage.branchRate = 0
       /\ runs[r].coverage.lineCoverage = << >>

(* C9 as amended: when the instrumented run leaves no coverage artifact    *)
(* the coverage report has success = true, line rate 0, branch rate 0,     *)
(* summary 0 and a per-line list with one uncovered entry for every line   *)
(* of the reference code.                                                  *)
C9_NoArtifactGivesUncoveredLines ==
  \A r \in DOMAIN runs :
     runs[r].art \in {"none", "nofile"} =>
       /\ runs[r].coverage # Rejected
       /\ runs[r].coverage.success
       /\ runs[r].coverage.lineRate = 0
       /\ runs[r].coverage.branchRate = 0
       /\ runs[r].coverage.coverageSummary = 0
       /\ Len(runs[r].coverage.lineCoverage) = Len(BaseCode)
       /\ \A i \in 1..Len(BaseCode) : runs[r].coverage.lineCoverage[i] = FALSE

(* C9 witness: a run whose coverage stage found no coverage file, and     *)
(* whose call went on to store the report.                                 *)
C9_Witness ==
  \E c \in DOMAIN calls :
     /\ calls[c].pc = "cp_save"
     /\ runs[calls[c].run].art \in {"none", "nofile"}
     /\ runs[calls[c].run].coverage.success

CoverageBadges ==
  {"coverage_platinum", "coverage_gold", "coverage_silver", "coverage_bronze"}

(* The badge of the highest tier a line rate reaches.                      *)
HighestTier(lineRate) ==
  IF lineRate >= 1000 THEN {"coverage_platinum"}
  ELSE IF lineRate >= 900 THEN {"coverage_gold"}
  ELSE IF lineRate >= 800 THEN {"coverage_silver"}
  ELSE IF lineRate >= 700 THEN {"coverage_bronze"}
  ELSE {}

(* C10: in the step in which endGame finishes a game every entry holds at  *)
(* most one coverage badge: the badge of the highest tier its line rate    *)
(* reaches if that badge is defined, and none otherwise (none at all if    *)
(* its line rate is below 70).                                             *)
C10_HighestCoverageTierOnly ==
  [][\A g \in GameIds :
       (/\ games[g] # NoDoc /\ games[g].gameState = "playing"
        /\ games'[g].gameState = "finished")
       => \A k \in 1..Len(games'[g].players) :
             LET e == games'[g].players[k]
             IN /\ {b \in CoverageBadges : InSeq(b, e.badgesEarned)}
                     = HighestTier(e.lineRate) \cap badges
                /\ Len(SelectSeq(e.badgesEarned, LAMBDA b : b \in CoverageBadges)) <= 1]_vars

(* C10 witness: a finished game with an entry of line rate 100 and an      *)
(* entry of a line rate below 70.                                          *)
C10_Witness ==
  \E g \in GameIds :
     /\ games[g] # NoDoc /\ games[g].gameState = "finished"
     /\ \E k \in 1..Len(games[g].players) :
          /\ games[g].players[k].lineRate = 1000
          /\ InSeq("coverage_platinum", games[g].players[k].badgesEarned)
     /\ \E k \in 1..Len(games[g].players) : games[g].players[k].lineRate < 700

(* C11: when endGame marks a game finished, for every entry of the copy it *)
(* loaded that had a submission but mutation score 0 and no coverage data  *)
(* its nested calculatePlayerData call has been made and has returned, and *)
(* no nested call was made for an entry without a submission.              *)
C11_AutoCalculationBeforeFinish ==
  [][\A c \in DOMAIN calls :
       (/\ calls[c].pc = "eg_finish"
        /\ games[calls[c].gid].gameState = "playing"
        /\ games'[calls[c].gid].gameState = "finished"
        /\ calls'[c].pc = "done")
       => \A k \in 1..Len(calls[c].snap.players) :
             LET e == calls[c].snap.players[k]
             IN /\ (/\ e.testCode # "" /\ e.mutation.score = 0
                    /\ e.lineRate = 0)
                     => e.playerId \in calls[c].auto
                /\ e.testCode = "" => e.playerId \notin calls[c].auto]_vars

(* C11 witness: an endGame about to finish a game after the nested call    *)
(* for one entry has returned, the other entry having no submission.       *)
C11_Witness ==
  \E c \in DOMAIN calls :
     /\ calls[c].pc = "eg_finish"
     /\ calls[c].auto # {}
     /\ \E k \in 1..Len(calls[c].snap.players) : calls[c].snap.players[k].testCode = ""
     /\ games[calls[c].gid].gameState = "playing"

(* C12: a calculatePlayerData call that follows a successful call for the  *)
(* same game and player with the same code, under a deterministic          *)
(* toolchain, is about to store the entry the earlier call stored (same    *)
(* composite score, same metrics).                                         *)
C12_RepeatedCalculationStoresSameEntry ==
  \A c \in DOMAIN calls :
     (/\ calls[c].pc = "cp_save"
      /\ games[calls[c].gid].v = calls[c].doc.v)
     => LET k == PlayerIndex(calls[c].doc, calls[c].pid)
            old == games[calls[c].gid].players[k]
        IN (old.stats # NoStats /\ old.testCode = calls[c].code)
             => calls[c].doc.players[k] = old

C14_FinishedGameIsReadOnly ==
  [][/\ \A g \in GameIds :
          (games[g] # NoDoc /\ games[g].gameState = "finished")
          => games'[g].players = games[g].players
     /\ \A c \in DOMAIN calls :
          (/\ calls[c].pc \in {"sb_load", "cp_load"}
           /\ calls[c].caller = "client"
           /\ games[calls[c].gid] # NoDoc
           /\ games[calls[c].gid].gameState = "finished"
           /\ calls'[c] # calls[c])
          => (calls'[c].pc = "done" /\ ~calls'[c].res.success)]_vars

(* C15: a game is finalized exactly once: when the game is finished and    *)
(* every endGame call on it has returned, each entry holds every badge at  *)
(* most once and each participant's long-term statistics have been updated *)
(* for the game exactly once (one more game played, the entry's score      *)
(* added to the total score).                                              *)
C15_FinalizedExactlyOnce ==
  \A g \in GameIds :
     (/\ games[g] # NoDoc
      /\ games[g].gameState = "finished"
      /\ \A c \in DOMAIN calls :
            (calls[c].op = "endGame" /\ calls[c].gid = g) => calls[c].pc = "done")
     => \A k \in 1..Len(games[g].players) :
           LET e == games[g].players[k]
           IN /\ \A i, j \in 1..Len(e.badgesEarned) :
                    e.badgesEarned[i] = e.badgesEarned[j] => i = j
              /\ playerStats[e.playerId].totalGamesPlayed = 1
              /\ playerStats[e.playerId].totalScore = e.totalScore

(* C16: a startGame call returns success only if the caller's room exists, *)
(* has at least 2 players, all of them ready, and no other game of that    *)
(* room is playing; a call that returns failure has created no game and    *)
(* has left the room as it was.                                            *)
C16_StartGamePreconditions ==
  [][\A c \in DOMAIN calls :
       (/\ calls[c].op = "startGame"
        /\ calls[c].pc # "done"
        /\ calls'[c].pc = "done")
       => IF calls'[c].res.success
          THEN \E r \in DOMAIN rooms :
                  /\ \E k \in 1..Len(rooms[r].players) : rooms[r].players[k] = calls[c].pid
                  /\ Len(rooms[r].players) >= 2
                  /\ \A k \in 1..Len(rooms[r].players) : rooms[r].players[k] \in rooms[r].ready
                  /\ \A g \in GameIds :
                        (/\ games[g] # NoDoc /\ games[g].roomCode = r
                         /\ games[g].gameState = "playing")
                        => g = calls[c].gid
          ELSE /\ calls[c].pc = "sg_update" => games'[calls[c].gid] = NoDoc
               /\ rooms' = rooms]_vars

(* C17: a submitTestCode call that returns success has stored the code and *)
(* the time of the submission on the caller's entry, and has left the game *)
(* state, every other field of every entry, the other players' codes and   *)
(* the pipeline runs as they were.                                         *)
C17_SubmitStoresCodeAndTimeOnly ==
  [][\A c \in DOMAIN calls :
       (/\ calls[c].op = "submitTestCode"
        /\ calls[c].pc # "done"
        /\ calls'[c].pc = "done"
        /\ calls'[c].res.success)
       => LET old == games[calls[c].gid]
              new == games'[calls[c].gid]
              k == PlayerIndex(old, calls[c].pid)
          IN /\ new.gameState = old.gameState
             /\ new.players =
                  [old.players EXCEPT ![k].testCode = calls[c].code,
                                      ![k].submittedAt = "submitTestCode"]
             /\ runs' = runs
             /\ fs' = fs]_vars

(* C18: a submitTestCode call that finds the game not playing, the caller  *)
(* no entry of the game, or the code empty returns a failure and leaves    *)
(* the stored games (every entry, the caller's earlier submission          *)
(* included) unchanged.                                                    *)
C18_RejectedSubmitChangesNothing ==
  [][\A c \in DOMAIN calls :
       (/\ calls[c].op = "submitTestCode"
        /\ calls[c].pc = "sb_load"
        /\ games[calls[c].gid] # NoDoc
        /\ \/ games[calls[c].gid].gameState # "playing"
           \/ PlayerIndex(games[calls[c].gid], calls[c].pid) = 0
           \/ calls[c].code = ""
        /\ calls'[c] # calls[c])
       => /\ calls'[c].pc = "done"
          /\ ~calls'[c].res.success
          /\ games' = games]_vars

(* A submission rejected because the game is finished, made by a player    *)
(* whose earlier submission is stored.                                     *)
C18_Witness ==
  \E c \in DOMAIN calls :
     /\ calls[c].op = "submitTestCode"
     /\ calls[c].pc = "done"
     /\ calls[c].res = Err("Game is not active")
     /\ games[calls[c].gid].gameState = "finished"
     /\ PlayerIndex(games[calls[c].gid], calls[c].pid) # 0
     /\ games[calls[c].gid].players[PlayerIndex(games[calls[c].gid], calls[c].pid)].testCode # ""

(* C19: a run whose test execution exceeds the 20 s limit is returned as a *)
(* failure by the runner, and no coverage or mutation analysis is made for *)
(* it: the calculatePlayerData call it belongs to does not go on to store  *)
(* an entry.                                                               *)
C19_TimeoutFailsAtTestStage ==
  /\ \A r \in DOMAIN runs :
       (/\ runs[r].stage = "tests"
        /\ Profile(runs[r].tests).hangs
        /\ runs[r].result # NoRes)
       => /\ ~runs[r].result.success
          /\ runs[r].coverage = NotRun
  /\ \A c \in DOMAIN calls :
       (calls[c].pc = "cp_save" /\ calls[c].run # 0)
       => ~Profile(runs[calls[c].run].tests).hangs

(* The commands of run r were started in the order restore, reference      *)
(* build, tests build, test execution, and none after one that failed.     *)
StartedInOrder(r) ==
  /\ Len(r.started) <= Len(StageOrder)
  /\ \A k \in 1..Len(r.started) :
       /\ r.started[k] = StageOrder[k]
       /\ StageFails(r.started[k], r.fault, Profile(r.tests).builds)
            => k = Len(r.started)

(* The failure result of run r names the stage that failed.                *)
TaggedWithStage(r) ==
  /\ ~r.result.success
  /\ r.stage = "restore" => r.result.error = "NuGet Restore Error"
  /\ r.stage = "build_code" => r.result.error = "Build Error in PlayerCode"
  /\ r.stage = "build_tests" => r.result.error = "Build Error in PlayerTests"
  /\ r.stage # "copy"
       => StageFails(r.stage, r.fault, Profile(r.tests).builds)

(* C20 as stated: the stages run in the fixed order and short-circuit; at  *)
(* the step that returns a failure result the workspace is gone and the    *)
(* result is tagged with the failing stage.                                *)
C20_StagesShortCircuitAndRelease ==
  [][/\ \A r \in DOMAIN runs' : StartedInOrder(runs'[r])
     /\ \A c \in DOMAIN calls :
          (calls[c].pc \in {"cp_rm1", "cp_rm2"} /\ calls'[c].pc \notin {"cp_rm1", "cp_rm2"})
          => LET r == runs'[calls[c].run]
             IN /\ TaggedWithStage(r)
                /\ r.projectDir \notin fs']_vars

(* C20, amended: the same, except that the workspace can be left behind    *)
(* when every removal tried for the run failed.                            *)
C20_StagesShortCircuitReleaseTried ==
  [][/\ \A r \in DOMAIN runs' : StartedInOrder(runs'[r])
     /\ \A c \in DOMAIN calls :
          (calls[c].pc \in {"cp_rm1", "cp_rm2"} /\ calls'[c].pc \notin {"cp_rm1", "cp_rm2"})
          => LET r == runs'[calls[c].run]
             IN /\ TaggedWithStage(r)
                /\ r.rm >= 1
                /\ r.projectDir \in fs' => r.rmFailed = r.rm]_vars

(* A run stopped by the reference build: restore and the reference build   *)
(* were started, nothing after; the first removal failed, the second       *)
(* released the workspace, and the result names the reference build.       *)
C20_Witness ==
  \E r \in DOMAIN runs :
     /\ runs[r].started = <<"restore", "build_code">>
     /\ runs[r].result = Err("Build Error in PlayerCode")
     /\ runs[r].rm = 2 /\ runs[r].rmFailed = 1
     /\ runs[r].projectDir \notin fs

(* C21: whatever makes the mutation stage fail (tool not available, the    *)
(* project group cannot be created, the tool times out, no report file,    *)
(* malformed JSON), generateMutationReport returns success false with an   *)
(* error string, no mutants and every count and the score 0; it returns a  *)
(* report in every case.                                                   *)
C21_MutationFailureGivesZeroedReport ==
  /\ \A tool \in MutationTool \ {"ok"}, code \in TestCodes \cup {"", "tH"} :
       LET rep == generateMutationReport(tool, Profile(code).mutants)
       IN /\ ~rep.success /\ rep.error # ""
          /\ rep.mutants = << >> /\ rep.summary = ZeroSummary
  /\ \A r \in DOMAIN runs :
       runs[r].tool # "" =>
         /\ runs[r].mutation # NotRun
         /\ runs[r].mutation.success <=> runs[r].tool = "ok"
         /\ ~runs[r].mutation.success =>
              /\ runs[r].mutation.error # ""
              /\ runs[r].mutation.mutants = << >>
              /\ runs[r].mutation.summary = ZeroSummary

(* A run of a code with mutants in its report whose mutation stage failed. *)
C21_Witness ==
  \E r \in DOMAIN runs :
     /\ runs[r].tool \in MutationTool \ {"ok"}
     /\ Profile(runs[r].tests).mutants # << >>
     /\ ~runs[r].mutation.success

(* C22: when the mutation stage of a run fails after its test and coverage *)
(* stages succeeded, calculatePlayerData goes on to store the entry: the   *)
(* test statistics and coverage results of the run, and a composite score  *)
(* computed with 0 for the mutation term.                                  *)
C22_MutationFailureKeepsPartialResult ==
  [][\A c \in DOMAIN calls :
       (/\ calls[c].pc = "cp_test"
        /\ calls'[c] # calls[c]
        /\ runs'[calls[c].run].mutation # NotRun
        /\ ~runs'[calls[c].run].mutation.success)
       => LET r == runs'[calls[c].run]
              prof == Profile(r.tests)
              e == calls'[c].doc.players[PlayerIndex(calls'[c].doc, calls[c].pid)]
          IN /\ calls'[c].pc = "cp_save"
             /\ e.stats = runResults(prof).stats
             /\ e.lineRate = r.coverage.lineRate
             /\ e.lineCoverage = r.coverage.lineCoverage
             /\ e.totalScore = CompositeScore(0, r.coverage.branchRate,
                                              r.coverage.coverageSummary,
                                              e.testLines, prof.secs)]_vars

(* C23: generateCoverageReport resolves to a result object for every state *)
(* of the file system (it never rejects), and when the coverage artifact   *)
(* is not found the result has every rate 0 and no line covered.           *)
C23_CoverageAnalyzerNeverThrows ==
  \A r \in DOMAIN runs :
     runs[r].coverage # NotRun =>
       /\ runs[r].coverage # Rejected
       /\ runs[r].art \in {"none", "nofile"} =>
            /\ runs[r].coverage.coverageSummary = 0
            /\ runs[r].coverage.lineRate = 0
            /\ runs[r].coverage.branchRate = 0
            /\ \A i \in DOMAIN runs[r].coverage.lineCoverage :
                  ~runs[r].coverage.lineCoverage[i]

(* C24: the testLines stored on a scored entry is the number of non-blank, *)
(* non-brace-only, comment-stripped lines of the test code stored on that  *)
(* entry.                                                                  *)
C24_TestLinesCountSubmittedCode ==
  \A g \in GameIds :
     games[g] # NoDoc =>
       \A k \in 1..Len(games[g].players) :
          LET e == games[g].players[k]
          IN e.stats # NoStats
               => e.testLines = calculateTestLines(Text(e.testCode)).totalTestLines

(* C25: when a game is finished and the endGame calls on it have returned, *)
(* the entry ranked first by composite score is recorded as the game's     *)
(* winner, every participant has one more game played and the entry's      *)
(* composite score added to the total score, and the winner alone has one  *)
(* more game won.                                                          *)
C25_ScoresFoldedAndWinnerRecorded ==
  \A g \in GameIds :
     (/\ games[g] # NoDoc
      /\ games[g].gameState = "finished"
      /\ \A c \in DOMAIN calls :
            (calls[c].op = "endGame" /\ calls[c].gid = g) => calls[c].pc = "done")
     => \A k \in 1..Len(games[g].players) :
           LET e == games[g].players[k]
               first == ranking(games[g].players, k) = 1
           IN /\ first <=> games[g].winner = e.playerId
              /\ playerStats[e.playerId].totalGamesPlayed = NewPlayer.totalGamesPlayed + 1
              /\ playerStats[e.playerId].totalScore = NewPlayer.totalScore + e.totalScore
              /\ playerStats[e.playerId].totalGamesWon =
                   NewPlayer.totalGamesWon + (IF first THEN 1 ELSE 0)

(* C28: a game whose state is 'finished' has finishedAt and totalDuration  *)
(* recorded: finishedAt holds a date not before startedAt and              *)
(* totalDuration the seconds between the two.                              *)
C28_FinishedGameHasEndTime ==
  \A g \in GameIds :
     (games[g] # NoDoc /\ games[g].gameState = "finished")
     => /\ games[g].finishedAt # NoDate
        /\ games[g].finishedAt >= games[g].startedAt
        /\ games[g].totalDuration
             = (games[g].finishedAt - games[g].startedAt + 500) \div 1000

(* C26: every path a run creates, reads or deletes in its test, coverage   *)
(* and mutation stages lies under the run's own workspace, and no two runs *)
(* work on a common path.                                                  *)
C26_RunsStayInOwnWorkspace ==
  /\ \A r \in DOMAIN runs :
        \A p \in runs[r].touched : p[1] = runs[r].projectDir
  /\ \A r1, r2 \in DOMAIN runs :
        r1 # r2 => runs[r1].touched \cap runs[r2].touched = {}

(* C27: when startGame returns success the game it created is playing, has *)
(* startedAt recorded and holds exactly one entry per player of the room,  *)
(* in no other player's name, each with composite score 0, empty metrics   *)
(* (the schema defaults) and no badges.                                    *)
C27_NewGameHasOneEmptyEntryPerPlayer ==
  [][\A c \in DOMAIN calls :
       (/\ calls[c].op = "startGame"
        /\ calls[c].pc = "sg_update"
        /\ calls'[c].pc = "done"
        /\ calls'[c].res.success)
       => LET game == games'[calls[c].gid]
              room == rooms'[game.roomCode]
          IN /\ game.gameState = "playing"
             /\ game.startedAt # NoDate
             /\ Len(game.players) = Len(room.players)
             /\ \A k \in 1..Len(room.players) :
                   /\ game.players[k].totalScore = 0
                   /\ game.players[k].badgesEarned = << >>
                   /\ game.players[k] = NewEntry(room.players[k])]_vars

(* The entries of a game that hold badge b.                                *)
Holders(players, b) == {k \in 1..Len(players) : InSeq(b, players[k].badgesEarned)}

(* C29: in the step in which endGame finishes a game, the placement badges *)
(* being defined, exactly one entry holds the first-place badge and, with  *)
(* 2 or more entries, exactly one other entry holds the second-place       *)
(* badge, also when scores tie; the first-place entry's composite score is *)
(* at least every other entry's and the second-place entry's is at least   *)
(* that of every entry but the first.                                      *)
C29_PlacementBadges ==
  [][\A g \in GameIds :
       (/\ games[g] # NoDoc /\ games[g].gameState = "playing"
        /\ games'[g].gameState = "finished"
        /\ {"first_place", "second_place"} \subseteq badges)
       => LET P == games'[g].players
              first == Holders(P, "first_place")
              second == Holders(P, "second_place")
          IN /\ Cardinality(first) = 1
             /\ \A k \in first : \A j \in 1..Len(P) : P[k].totalScore >= P[j].totalScore
             /\ Len(P) >= 2 =>
                  /\ Cardinality(second) = 1
                  /\ second \cap first = {}
                  /\ \A k \in second : \A j \in 1..Len(P) \ first :
                        P[k].totalScore >= P[j].totalScore
             /\ \A k \in 1..Len(P) :
                   Len(SelectSeq(P[k].badgesEarned,
                                 LAMBDA b : b \in {"first_place", "second_place"})) <= 1]_vars

(* A finished game whose two scored entries tie: the earlier entry holds   *)
(* the first-place badge, the later one the second-place badge.            *)
C29_Witness ==
  \E g \in GameIds :
     /\ games[g] # NoDoc /\ games[g].gameState = "finished"
     /\ games[g].players[1].stats # NoStats
     /\ games[g].players[1].totalScore = games[g].players[2].totalScore
     /\ Holders(games[g].players, "first_place") = {1}
     /\ Holders(games[g].players, "second_place") = {2}

(* C30 as stated: in the step in which endGame finishes a game, the speed  *)
(* badge being defined, an entry holds the speed badge exactly if its      *)
(* execution time is below 5 seconds.                                      *)
C30_SpeedBadgeBelowFive ==
  [][\A g \in GameIds :
       (/\ games[g] # NoDoc /\ games[g].gameState = "playing"
        /\ games'[g].gameState = "finished"
        /\ "lightning_tester" \in badges)
       => \A k \in 1..Len(games'[g].players) :
             LET e == games'[g].players[k]
             IN InSeq("lightning_tester", e.badgesEarned) <=> e.executionTime < 5]_vars

(* C30, amended: an entry holds the speed badge exactly if it has an       *)
(* execution time (one above 0: the entry was scored) and that time is     *)
(* below 5 seconds; it holds the badge once.                               *)
C30_SpeedBadgeForMeasuredTimeBelowFive ==
  [][\A g \in GameIds :
       (/\ games[g] # NoDoc /\ games[g].gameState = "playing"
        /\ games'[g].gameState = "finished"
        /\ "lightning_tester" \in badges)
       => \A k \in 1..Len(games'[g].players) :
             LET e == games'[g].players[k]
             IN /\ InSeq("lightning_tester", e.badgesEarned)
                     <=> (e.executionTime > 0 /\ e.executionTime < 5)
                /\ Len(SelectSeq(e.badgesEarned, LAMBDA b : b = "lightning_tester")) <= 1]_vars

(* A finished game with an entry that ran in under 5 seconds and holds the *)
(* badge, and an entry without a run, which does not.                      *)
C30_Witness ==
  \E g \in GameIds :
     /\ games[g] # NoDoc /\ games[g].gameState = "finished"
     /\ "lightning_tester" \in badges
     /\ \E k \in 1..Len(games[g].players) :
          /\ games[g].players[k].executionTime \in 1..4
          /\ InSeq("lightning_tester", games[g].players[k].badgesEarned)
     /\ \E k \in 1..Len(games[g].players) :
          /\ games[g].players[k].executionTime = 0
          /\ ~InSeq("lightning_tester", games[g].players[k].badgesEarned)

(* The pcs of a calculatePlayerData call after its workspace was created.  *)
PastRun == {"cp_test", "cp_rm1", "cp_rm2", "cp_save"}

(* C31: no automatic retries.  In every step: a calculatePlayerData call   *)
(* that leaves its compile-and-run stage had no workspace before, creates  *)
(* exactly one, in a directory that did not exist, and started each        *)
(* command at most once, none after a failed one; a call that has its      *)
(* workspace never goes back to that stage nor gets another workspace; and *)
(* endGame's loop starts a calculation only for an entry it has not        *)
(* calculated before.                                                      *)
C31_NoAutomaticRetries ==
  [][/\ Len(runs') <= Len(runs) + 1
     /\ \A c \in DOMAIN calls :
          /\ (calls[c].pc = "cp_run" /\ calls'[c] # calls[c])
               => /\ calls[c].run = 0
                  /\ Len(runs') = Len(runs) + 1
                  /\ calls'[c].run = Len(runs')
                  /\ runs'[Len(runs')].projectDir \notin fs
                  /\ StartedInOrder(runs'[Len(runs')])
          /\ calls[c].pc \in PastRun
               => /\ calls'[c].pc # "cp_run"
                  /\ calls'[c].run \in {calls[c].run, 0}
                  /\ calls'[c].run = calls[c].run
                       => runs'[calls[c].run].started = runs[calls[c].run].started
          /\ (calls'[c].caller = "endGame" /\ calls'[c] # calls[c]
              /\ calls'[c].pc = "cp_load")
               => /\ calls'[c].pid \notin calls'[c].auto
                  /\ calls[c].caller = "endGame" => calls'[c].i > calls[c].i]_vars

(* Call c is one of two calculatePlayerData calls for the same player of   *)
(* the same game.                                                          *)
SamePlayerPair(c) ==
  /\ calls[c].op = "calculatePlayerData"
  /\ \E d \in DOMAIN calls \ {c} :
       /\ calls[d].op = "calculatePlayerData"
       /\ calls[d].gid = calls[c].gid /\ calls[d].pid = calls[c].pid

(* C32 as stated: last write wins.  Whenever one of two calls for the same *)
(* player saves, the player's stored entry is afterwards, in all of its    *)
(* fields, the entry that call computed; so after both have returned it is *)
(* the entry of the call that saved last.                                  *)
C32_LastWriteWins ==
  [][\A c \in DOMAIN calls :
       (SamePlayerPair(c) /\ calls[c].pc = "cp_save" /\ calls'[c] # calls[c])
       => LET k == PlayerIndex(calls[c].doc, calls[c].pid)
          IN games'[calls[c].gid].players[k] = calls[c].doc.players[k]]_vars

(* C32, amended: the save of a call that loaded the game before the other  *)
(* call's save is refused: it changes nothing and the call returns a       *)
(* failure; any other save stores, in all of its fields, the entry the     *)
(* call computed.  The stored entry is therefore always the whole entry of *)
(* the call whose save was accepted last, never a mixture.                 *)
C32_LastAcceptedWriteWins ==
  [][\A c \in DOMAIN calls :
       (SamePlayerPair(c) /\ calls[c].pc = "cp_save" /\ calls'[c] # calls[c])
       => LET g == calls[c].gid
              k == PlayerIndex(calls[c].doc, calls[c].pid)
          IN IF calls[c].doc.v = games[g].v
             THEN /\ games'[g].players[k] = calls[c].doc.players[k]
                  /\ calls'[c].res = Ok
             ELSE /\ games'[g] = games[g]
                  /\ calls'[c].pc = "done" /\ ~calls'[c].res.success]_vars

(* Two calls for the same player have returned, one with success and the   *)
(* other, whose save was refused, with a failure; the entry is scored.     *)
C32_Witness ==
  \E c, d \in DOMAIN calls :
     /\ c # d
     /\ calls[c].op = "calculatePlayerData" /\ calls[d].op = "calculatePlayerData"
     /\ calls[c].pid = calls[d].pid /\ calls[c].gid = calls[d].gid
     /\ calls[c].pc = "done" /\ calls[d].pc = "done"
     /\ calls[c].res = Ok
     /\ calls[d].res = Err("save failed")
     /\ games[calls[c].gid].players[PlayerIndex(games[calls[c].gid], calls[c].pid)].stats # NoStats

(* The number of mutants of a report with status st.                       *)
WithStatus(mutants, st) == Cardinality({i \in 1..Len(mutants) : mutants[i] = st})

(* The counts of a parsed report are those of its mutants.                 *)
CountsMatch(rep) ==
  /\ rep.summary.totalMutants = Len(rep.mutants)
  /\ rep.summary.killed = WithStatus(rep.mutants, "Killed")
  /\ rep.summary.survived = WithStatus(rep.mutants, "Survived")
  /\ rep.summary.timeout = WithStatus(rep.mutants, "Timeout")
  /\ rep.summary.noCoverage = WithStatus(rep.mutants, "NoCoverage")
  /\ rep.summary.killed + rep.summary.survived + rep.summary.timeout
       + rep.summary.noCoverage <= rep.summary.totalMutants

(* C33 as stated: for every parsed report the counts are those of its      *)
(* mutants, and the score is exactly killed/total*100 (in tenths of a      *)
(* percent: score * total = killed * 1000), or 0 when total is 0.          *)
C33_MutationSummaryExact ==
  \A r \in DOMAIN runs :
     (runs[r].mutation # NotRun /\ runs[r].mutation.success)
     => LET rep == runs[r].mutation
        IN /\ CountsMatch(rep)
           /\ rep.summary.totalMutants = 0 => rep.summary.mutationScore = 0
           /\ rep.summary.totalMutants > 0
                => rep.summary.mutationScore * rep.summary.totalMutants
                     = rep.summary.killed * 1000

(* C33, amended: the score is killed/total*100 rounded to one decimal      *)
(* place (a half rounds up), or 0 when total is 0.                         *)
C33_MutationSummaryRounded ==
  \A r \in DOMAIN runs :
     (runs[r].mutation # NotRun /\ runs[r].mutation.success)
     => LET rep == runs[r].mutation
            t == rep.summary.totalMutants
            d == 2 * rep.summary.mutationScore * t - 2000 * rep.summary.killed
        IN /\ CountsMatch(rep)
           /\ t = 0 => rep.summary.mutationScore = 0
           /\ t > 0 => (-t < d /\ d <= t)

(* A parsed report with two of three mutants killed and one of a status    *)
(* the summary does not count: the score is 66.7.                          *)
C33_Witness ==
  \E r \in DOMAIN runs :
     /\ runs[r].mutation # NotRun /\ runs[r].mutation.success
     /\ runs[r].mutation.summary.totalMutants = 3
     /\ runs[r].mutation.summary.killed = 2
     /\ WithStatus(runs[r].mutation.mutants, "Ignored") = 1
     /\ runs[r].mutation.summary.mutationScore = 667

(* C34: whenever the coverage and mutation stages of a call act on the     *)
(* workspace of its run, the run's delayed cleanup has not started and the *)
(* workspace directory exists.                                             *)
C34_WorkspaceOutlivesStages ==
  [][\A c \in DOMAIN calls :
       (calls[c].pc = "cp_test" /\ calls'[c] # calls[c])
       => /\ runs[calls[c].run].timer = "none"
          /\ runs[calls[c].run].projectDir \in fs]_vars

(* C35: when a calculatePlayerData call stores its result, the test code   *)
(* its run compiled and ran is the code it stores on the entry (its code   *)
(* argument).                                                              *)
C35_MetricsMeasuredOnStoredCode ==
  [][\A c \in DOMAIN calls :
       (calls[c].pc = "cp_save" /\ games'[calls[c].gid] # games[calls[c].gid])
       => LET k == PlayerIndex(calls[c].doc, calls[c].pid)
          IN /\ games'[calls[c].gid].players[k].testCode = calls[c].code
             /\ runs[calls[c].run].tests = games'[calls[c].gid].players[k].testCode]_vars

(* C36: startGame is all-or-nothing.  When a call that has saved its game  *)
(* document returns a failure, no game in state 'playing' is stored for    *)
(* its room and the active-games registry is as it was.                    *)
C36_StartGameAllOrNothing ==
  [][\A c \in DOMAIN calls :
       (/\ calls[c].op = "startGame"
        /\ calls[c].pc = "sg_update"
        /\ calls'[c].pc = "done"
        /\ ~calls'[c].res.success)
       => /\ \A g \in GameIds :
               games'[g] # NoDoc /\ games'[g].roomCode = calls[c].doc.roomCode
               => games'[g].gameState # "playing"
          /\ activeGames' = activeGames]_vars

(* C37: a submitTestCode call returns success only if its save stored the  *)
(* submitted code: in the step in which the call returns success, the      *)
(* stored entry of the caller comes to hold the code of the call through   *)
(* an accepted save of the call's copy.                                    *)
C37_SuccessMeansPersisted ==
  [][\A c \in DOMAIN calls :
       (/\ calls[c].op = "submitTestCode"
        /\ calls[c].pc = "sb_save"
        /\ calls'[c].pc = "done"
        /\ calls'[c].res.success)
       => LET g == calls[c].gid
              k == PlayerIndex(calls[c].doc, calls[c].pid)
          IN /\ games'[g].v = calls[c].doc.v + 1
             /\ games'[g].players[k].testCode = calls[c].code]_vars

(* C38: with no I/O fault, for a submitTestCode by one player and a        *)
(* calculatePlayerData for another player of the same game: when the       *)
(* second of the two returns success after the first did, the submitter's  *)
(* stored code is the submitted code (the submit that returns stores it,   *)
(* the calculation that returns leaves it).                                *)
C38_SubmitSurvivesOthersScoring ==
  [][faultsLeft' = MaxFaults =>
     \A c, d \in DOMAIN calls :
       (/\ calls[c].op = "submitTestCode"
        /\ calls[d].op = "calculatePlayerData"
        /\ calls[d].caller = "client"
        /\ calls[c].gid = calls[d].gid
        /\ calls[c].pid # calls[d].pid)
       => LET g == calls[c].gid
              k == PlayerIndex(games[g], calls[c].pid)
          IN /\ (/\ calls[d].pc = "done" /\ calls[d].res.success
                 /\ calls[c].pc = "sb_save"
                 /\ calls'[c].pc = "done" /\ calls'[c].res.success)
                => games'[g].players[k].testCode = calls[c].code
             /\ (/\ calls[c].pc = "done" /\ calls[c].res.success
                 /\ calls[d].pc = "cp_save"
                 /\ calls'[d].pc = "done" /\ calls'[d].res.success)
                => games'[g].players[k].testCode = games[g].players[k].testCode]_vars

(* C39: endGame releases the round.  In the step in which endGame stores   *)
(* the game as 'finished', the call returns success, the game's id leaves  *)
(* the active-games registry, and the game's room is no longer a 'waiting' *)
(* or 'playing' room (so getPlayerRoom finds no room of its participants). *)
C39_EndGameReleasesRound ==
  [][\A c \in DOMAIN calls :
       (/\ calls[c].op = "endGame"
        /\ games[calls[c].gid] # NoDoc
        /\ games[calls[c].gid].gameState = "playing"
        /\ games'[calls[c].gid].gameState = "finished")
       => LET g == calls[c].gid
              code == games[g].roomCode
          IN /\ calls'[c].pc = "done" /\ calls'[c].res.success
             /\ g \notin activeGames'
             /\ code \in DOMAIN rooms'
                  => rooms'[code].gameState \notin {"waiting", "playing"}]_vars

====
